---- MODULE Spec2Model ----
(***************************************************************************)
(* Model of the pluralization and locale-resolution engine of onwello/i18n *)
(* (utils/rtl-pluralization.utils.ts, utils/rtl.utils.ts) and of the       *)
(* TranslationService facade that drives it (cache, statistics, lookup).   *)
(*                                                                         *)
(* Text is a sequence of characters; a character is a one-character string *)
(* ("a", "$") or the name of a code point ("U+202A").  Numbers are         *)
(* integers.  A call that throws is the value Throw(..).                   *)
(***************************************************************************)
EXTENDS Integers, Sequences, FiniteSets, TLC

VARIABLES config, translations, cache, stats, now, last,
          files,          \* the translation files on disk: locale -> content
          rtlCache,       \* rtl.utils: the memo of isRTL
          rtlInfoCache,   \* rtl.utils: the memo of getRTLInfo
          held            \* the object a caller got from getStats, if any

vars == <<config, translations, cache, stats, now, last, files, rtlCache, rtlInfoCache, held>>

(***************************************************************************)
(* Bounds of the model.                                                    *)
(***************************************************************************)
MaxCount == 101
MaxNegative == 2
MaxHebrew == 1001
MaxRequests == 1
MaxCacheEntries == 1
MaxRtlEntries == 1

(***************************************************************************)
(* Characters and text helpers.                                            *)
(***************************************************************************)
LRE == "U+202A"
RLE == "U+202B"
PDF == "U+202C"
RLM == "U+200F"
LRM == "U+200E"
GRP == "GRP"          \* the grouping separator Intl.NumberFormat uses for the locale

AsciiDigits == <<"0", "1", "2", "3", "4", "5", "6", "7", "8", "9">>
ArabDigits == <<"U+0660", "U+0661", "U+0662", "U+0663", "U+0664",
                "U+0665", "U+0666", "U+0667", "U+0668", "U+0669">>
UpperLetters == {"A", "B", "C", "D", "E", "F", "G", "H", "I", "J", "K", "L", "M",
                 "N", "O", "P", "Q", "R", "S", "T", "U", "V", "W", "X", "Y", "Z"}
LowerLetters == {"a", "b", "c", "d", "e", "f", "g", "h", "i", "j", "k", "l", "m",
                 "n", "o", "p", "q", "r", "s", "t", "u", "v", "w", "x", "y", "z"}

IsAsciiDigit(c) == \E i \in 1..10 : AsciiDigits[i] = c
IsLetter(c) == c \in UpperLetters \cup LowerLetters
IsWordChar(c) == IsLetter(c) \/ IsAsciiDigit(c) \/ c = "_"

StartsWith(t, p) == Len(t) >= Len(p) /\ SubSeq(t, 1, Len(p)) = p

RECURSIVE Contains(_, _)
Contains(t, p) ==
  IF Len(t) < Len(p) THEN FALSE
  ELSE StartsWith(t, p) \/ Contains(Tail(t), p)

\* String.prototype.replace with a global regex of a literal pattern p (p non-empty)
RECURSIVE ReplaceAll(_, _, _)
ReplaceAll(t, p, r) ==
  IF Len(t) < Len(p) THEN t
  ELSE IF StartsWith(t, p) THEN r \o ReplaceAll(SubSeq(t, Len(p) + 1, Len(t)), p, r)
  ELSE <<t[1]>> \o ReplaceAll(Tail(t), p, r)

\* Number.prototype.toString of a non-negative integer
RECURSIVE NatToString(_)
NatToString(n) ==
  IF n < 10 THEN <<AsciiDigits[n + 1]>>
  ELSE NatToString(n \div 10) \o <<AsciiDigits[(n % 10) + 1]>>

\* Number.prototype.toString of an integer
NumToString(n) == IF n < 0 THEN <<"-">> \o NatToString(-n) ELSE NatToString(n)

Throw(e) == [ok |-> FALSE, err |-> e]
Ok(v) == [ok |-> TRUE, v |-> v]

\* undefined where a text is expected, and where a tag (an atomic string) is expected
Undefined == <<"undefined">>
UndefinedTag == "undefined"
\* a function object where a list is expected
FunctionValue == <<"function">>

\* parameter values that are not strings: null, and a nested object
\* { p: "Al", z: null } (a value is a text, Undefined, NullValue or ObjectValue)
NullValue == <<"null">>
ObjectValue == <<"[object]">>

\* String(value)
StringOf(value) ==
  IF value = Undefined THEN <<"u", "n", "d", "e", "f", "i", "n", "e", "d">>
  ELSE IF value = NullValue THEN <<"n", "u", "l", "l">>
  ELSE IF value = ObjectValue
    THEN <<"[", "o", "b", "j", "e", "c", "t", " ", "O", "b", "j", "e", "c", "t", "]">>
  ELSE value

(***************************************************************************)
(* Property lookup on a plain JavaScript object: an own property, else a   *)
(* member inherited from Object.prototype (a function, which is truthy),   *)
(* else undefined.  ObjectPrototypeKeys lists some of the inherited names. *)
(***************************************************************************)
T_valueOf == <<"v", "a", "l", "u", "e", "O", "f">>
T_toString == <<"t", "o", "S", "t", "r", "i", "n", "g">>
T_constructor == <<"c", "o", "n", "s", "t", "r", "u", "c", "t", "o", "r">>

ObjectPrototypeKeys == {T_valueOf, T_toString, T_constructor}
ObjectPrototypeTags == {"valueOf", "toString", "constructor"}

(***************************************************************************)
(* Locale tags used as inputs.                                             *)
(***************************************************************************)
L_en == <<"e", "n">>
L_ar == <<"a", "r">>
L_arMA == <<"a", "r", "-", "M", "A">>
L_arSA == <<"a", "r", "-", "S", "A">>
L_he == <<"h", "e">>
L_heIL == <<"h", "e", "-", "I", "L">>
L_fa == <<"f", "a">>
L_faIR == <<"f", "a", "-", "I", "R">>
L_ur == <<"u", "r">>
L_ku == <<"k", "u">>
L_AR == <<"A", "R">>
L_x == <<"x">>

(***************************************************************************)
(* rtl-pluralization.utils.ts                                              *)
(***************************************************************************)
\* pluralFunction of the configs; the rule is named by its family
pluralFunction(rule, count) ==
  CASE rule = "arabic" ->
         IF count = 0 THEN "zero"
         ELSE IF count = 1 THEN "one"
         ELSE IF count = 2 THEN "two"
         ELSE IF count >= 3 /\ count <= 10 THEN "few"
         ELSE IF count >= 11 /\ count <= 99 THEN "many"
         ELSE "other"
    [] rule = "hebrew" ->
         IF count = 1 THEN "one"
         ELSE IF count = 2 THEN "two"
         ELSE IF count >= 3 /\ count <= 10 THEN "few"
         ELSE IF count >= 11 THEN "many"
         ELSE "other"
    [] OTHER -> IF count = 1 THEN "one" ELSE "other"

PluralConfig(ns, dir, markers, rule, nfo) ==
  [kind |-> "config", numberingSystem |-> ns, direction |-> dir,
   useDirectionalMarkers |-> markers, rule |-> rule, numberFormatOptions |-> nfo]

ConfiguredLocales == {L_ar, L_arMA, L_he, L_fa, L_ur}

RTL_PLURAL_CONFIGS ==
  [l \in ConfiguredLocales |->
     CASE l = L_ar -> PluralConfig("arab", "rtl", TRUE, "arabic", TRUE)
       [] l = L_arMA -> PluralConfig("latn", "rtl", TRUE, "arabic", TRUE)
       [] l = L_he -> PluralConfig("hebr", "rtl", TRUE, "hebrew", TRUE)
       [] l = L_fa -> PluralConfig("arab", "rtl", TRUE, "persian", TRUE)
       [] l = L_ur -> PluralConfig("arab", "rtl", TRUE, "urdu", TRUE)]

\* a member inherited from Object.prototype: a function, none of whose
\* config properties is defined
ProtoMember ==
  [kind |-> "proto", numberingSystem |-> UndefinedTag, direction |-> UndefinedTag,
   useDirectionalMarkers |-> FALSE, rule |-> UndefinedTag, numberFormatOptions |-> FALSE]

UndefinedConfig ==
  [kind |-> "undefined", numberingSystem |-> UndefinedTag, direction |-> UndefinedTag,
   useDirectionalMarkers |-> FALSE, rule |-> UndefinedTag, numberFormatOptions |-> FALSE]

DefaultPluralConfig == PluralConfig("latn", "ltr", FALSE, "english", FALSE)

\* RTL_PLURAL_CONFIGS[key]: an own property, an inherited member, or undefined
ConfigLookup(key) ==
  IF key \in DOMAIN RTL_PLURAL_CONFIGS THEN RTL_PLURAL_CONFIGS[key]
  ELSE IF key \in ObjectPrototypeKeys THEN ProtoMember
  ELSE UndefinedConfig

\* locale.split('-')[0]
RECURSIVE BaseLocale(_)
BaseLocale(locale) ==
  IF locale = <<>> \/ locale[1] = "-" THEN <<>>
  ELSE <<locale[1]>> \o BaseLocale(Tail(locale))

getPluralConfig(locale) ==
  IF ConfigLookup(locale).kind # "undefined" THEN ConfigLookup(locale)
  ELSE IF ConfigLookup(BaseLocale(locale)).kind # "undefined" THEN ConfigLookup(BaseLocale(locale))
  ELSE DefaultPluralConfig

getNumberingSystem(locale) == getPluralConfig(locale).numberingSystem

\* a regional tag: language, '-', region
Regional(language, regions) == {language \o <<"-">> \o r : r \in regions}

\* ARABIC_NUMERAL_CONFIG: the locales of the two numeral systems
ARABIC_NUMERAL_CONFIG ==
  [eastern |->
     [locales |->
        {L_ar, L_fa, L_ur, <<"p", "s">>}
          \cup Regional(L_ar, {<<"S", "A">>, <<"E", "G">>, <<"A", "E">>, <<"Q", "A">>,
                               <<"K", "W">>, <<"B", "H">>, <<"O", "M">>, <<"Y", "E">>,
                               <<"I", "Q">>, <<"S", "Y">>, <<"L", "B">>, <<"J", "O">>,
                               <<"P", "S">>, <<"I", "L">>})
          \cup Regional(L_fa, {<<"I", "R">>, <<"A", "F">>})
          \cup Regional(L_ur, {<<"P", "K">>, <<"I", "N">>})
          \cup Regional(<<"p", "s">>, {<<"A", "F">>, <<"P", "K">>}),
      numberingSystem |-> "arab"],
   western |->
     [locales |-> Regional(L_ar, {<<"M", "A">>, <<"D", "Z">>, <<"T", "N">>, <<"L", "Y">>,
                                  <<"M", "R">>}),
      numberingSystem |-> "latn"]]

usesEasternArabicNumerals(locale) == locale \in ARABIC_NUMERAL_CONFIG.eastern.locales
usesWesternArabicNumerals(locale) == locale \in ARABIC_NUMERAL_CONFIG.western.locales

\* config.pluralFunction(count): a TypeError when the config has no pluralFunction
getPluralCategory(count, locale) ==
  LET cfg == getPluralConfig(locale) IN
  IF cfg.kind = "config" THEN Ok(pluralFunction(cfg.rule, count))
  ELSE Throw("TypeError")

(***************************************************************************)
(* Numeral formatting.                                                     *)
(***************************************************************************)
HebrewOnes == <<"U+05D0", "U+05D1", "U+05D2", "U+05D3", "U+05D4",
                "U+05D5", "U+05D6", "U+05D7", "U+05D8">>
HebrewTens == <<"U+05D9", "U+05DB", "U+05DC", "U+05DE", "U+05E0",
                "U+05E1", "U+05E2", "U+05E4", "U+05E6">>
HebrewHundreds == <<"U+05E7", "U+05E8", "U+05E9", "U+05EA">>

\* the table hebrewNumerals[n]; Undefined when n is not a key of the table
hebrewNumerals(n) ==
  IF n = 0 THEN <<>>
  ELSE IF n = 15 THEN <<HebrewOnes[9], HebrewOnes[6]>>
  ELSE IF n = 16 THEN <<HebrewOnes[9], HebrewOnes[7]>>
  ELSE IF n >= 1 /\ n <= 99 THEN
    (IF n \div 10 > 0 THEN <<HebrewTens[n \div 10]>> ELSE <<>>)
      \o (IF n % 10 > 0 THEN <<HebrewOnes[n % 10]>> ELSE <<>>)
  ELSE IF n \in {100, 200, 300, 400} THEN <<HebrewHundreds[n \div 100]>>
  ELSE Undefined

\* x || y for a table entry x: undefined and '' are falsy
OrElse(x, y) == IF x = Undefined \/ x = <<>> THEN y ELSE x

formatHebrewNumber(num) ==
  IF num = 0 THEN <<"0">>
  ELSE IF num <= 99 THEN OrElse(hebrewNumerals(num), NumToString(num))
  ELSE IF num <= 999 THEN
    LET hundreds == num \div 100
        remainder == num % 100
        r1 == IF hundreds > 0 THEN OrElse(hebrewNumerals(hundreds * 100), <<>>) ELSE <<>>
        r2 == IF remainder > 0 THEN r1 \o OrElse(hebrewNumerals(remainder), <<>>) ELSE r1
    IN OrElse(r2, NumToString(num))
  ELSE NumToString(num)

\* the decimal digits of text t rendered in a numbering system
DigitsIn(t, digits) ==
  [i \in 1..Len(t) |-> digits[CHOOSE d \in 1..10 : AsciiDigits[d] = t[i]]]

\* the three digits of n < 1000, zero padded
Pad3(n) ==
  <<AsciiDigits[(n \div 100) + 1], AsciiDigits[((n \div 10) % 10) + 1], AsciiDigits[(n % 10) + 1]>>

\* the digits of a non-negative integer in a numbering system, grouped by three
RECURSIVE GroupedDigits(_, _)
GroupedDigits(n, digits) ==
  IF n < 1000 THEN DigitsIn(NatToString(n), digits)
  ELSE GroupedDigits(n \div 1000, digits) \o <<GRP>> \o DigitsIn(Pad3(n % 1000), digits)

\* whether Intl accepts the tag: a language subtag of 2..8 letters followed by
\* subtags of 1..8 letters or digits; anything else is a RangeError
RECURSIVE WellFormedSubtags(_, _, _)
WellFormedSubtags(t, len, first) ==
  IF t = <<>> THEN (IF first THEN len >= 2 /\ len <= 8 ELSE len >= 1 /\ len <= 8)
  ELSE IF t[1] = "-" THEN
    (IF first THEN len >= 2 /\ len <= 8 ELSE len >= 1 /\ len <= 8)
      /\ WellFormedSubtags(Tail(t), 0, FALSE)
  ELSE (IF first THEN IsLetter(t[1]) ELSE IsLetter(t[1]) \/ IsAsciiDigit(t[1]))
      /\ WellFormedSubtags(Tail(t), len + 1, first)

IsStructurallyValidTag(locale) == WellFormedSubtags(locale, 0, TRUE)

\* new Intl.NumberFormat(locale, {numberingSystem, useGrouping: true}).format(num)
IntlNumberFormat(locale, numberingSystem, num) ==
  IF ~IsStructurallyValidTag(locale) THEN Throw("RangeError")
  ELSE LET digits == IF numberingSystem = "arab" THEN ArabDigits ELSE AsciiDigits
       IN Ok((IF num < 0 THEN <<"-">> ELSE <<>>)
               \o GroupedDigits(IF num < 0 THEN -num ELSE num, digits))

formatNumberForLocale(num, locale) ==
  LET cfg == getPluralConfig(locale) IN
  IF StartsWith(locale, L_he) THEN formatHebrewNumber(num)
  ELSE LET r == IntlNumberFormat(locale, cfg.numberingSystem, num)
       IN IF r.ok THEN r.v ELSE NumToString(num)

(***************************************************************************)
(* The pluralization engine.                                               *)
(* A plural rule (category map) is a function from keys to templates.  A   *)
(* parameter map is a sequence of [name, value] entries in insertion order.*)
(***************************************************************************)
N_count == <<"c", "o", "u", "n", "t">>

\* the text ${name}
Placeholder(name) == <<"$", "{">> \o name \o <<"}">>

Truthy(x) == x # Undefined /\ x # <<>>

\* pluralRule[key] of a category map parsed from JSON
RuleLookup(pluralRule, key) ==
  IF key \in DOMAIN pluralRule THEN pluralRule[key] ELSE Undefined

\* a variant of applyDirectionalMarkers that prefixes the RIGHT-TO-LEFT MARK
applyDirectionalMarkers_Mark(text, locale) ==
  LET cfg == getPluralConfig(locale) IN
  IF ~cfg.useDirectionalMarkers \/ cfg.direction # "rtl" THEN text
  ELSE <<RLM>> \o text

applyDirectionalMarkers(text, locale) ==
  LET cfg == getPluralConfig(locale) IN
  IF ~cfg.useDirectionalMarkers \/ cfg.direction # "rtl" THEN text
  ELSE <<RLE>> \o text \o <<PDF>>

\* text.replace(/(\d+)/g, LRE $1 PDF)
RECURSIVE EmbedDigitRuns(_, _)
EmbedDigitRuns(t, inRun) ==
  IF t = <<>> THEN (IF inRun THEN <<PDF>> ELSE <<>>)
  ELSE IF IsAsciiDigit(t[1])
    THEN (IF inRun THEN <<>> ELSE <<LRE>>) \o <<t[1]>> \o EmbedDigitRuns(Tail(t), TRUE)
    ELSE (IF inRun THEN <<PDF>> ELSE <<>>) \o <<t[1]>> \o EmbedDigitRuns(Tail(t), FALSE)

handleMixedContent(text, locale) ==
  LET cfg == getPluralConfig(locale) IN
  IF cfg.direction # "rtl" THEN text ELSE EmbedDigitRuns(text, FALSE)

\* categoryKeys[category]: the alias list, an inherited member, or undefined
categoryKeys(category) ==
  CASE category = "zero" -> <<"0", "zero">>
    [] category = "one" -> <<"1", "one">>
    [] category = "two" -> <<"2", "two">>
    [] category = "few" -> <<"few">>
    [] category = "many" -> <<"many">>
    [] category = "other" -> <<"other">>
    [] category \in ObjectPrototypeTags -> FunctionValue
    [] OTHER -> Undefined

\* the for-loop over the alias keys: the first key with a truthy template
RECURSIVE SelectTemplate(_, _, _)
SelectTemplate(pluralRule, keys, fallback) ==
  IF keys = <<>> THEN fallback
  ELSE IF Truthy(RuleLookup(pluralRule, keys[1])) THEN RuleLookup(pluralRule, keys[1])
  ELSE SelectTemplate(pluralRule, Tail(keys), fallback)

\* { ...params }; formattedParams.count = value
WithCount(params, value) ==
  IF \E i \in 1..Len(params) : params[i].name = N_count
  THEN [i \in 1..Len(params) |->
          IF params[i].name = N_count THEN [name |-> N_count, value |-> value] ELSE params[i]]
  ELSE Append(params, [name |-> N_count, value |-> value])

\* Object.entries(formattedParams).forEach: one global replace per entry, in order
RECURSIVE InterpolateEntries(_, _)
InterpolateEntries(result, entries) ==
  IF entries = <<>> THEN result
  ELSE InterpolateEntries(ReplaceAll(result, Placeholder(entries[1].name),
                                     StringOf(entries[1].value)),
                          Tail(entries))

\* the caller's custom rule functions, named
customRuleFn(rule, count) ==
  CASE rule = "simplified" -> IF count = 0 THEN "zero" ELSE IF count = 1 THEN "one" ELSE "other"
    [] rule = "alwaysMany" -> "many"
    [] rule = "unknownTag" -> "plenty"
    [] rule = "inheritedTag" -> "valueOf"

NoRule == "none"

\* the steps of processRTLPluralization after the template is selected:
\* interpolation of the parameters with count, then the directional markers
RenderTemplate(template, countText, locale, params, useDirectionalMarkers) ==
  LET cfg == getPluralConfig(locale)
      result == InterpolateEntries(template, WithCount(params, countText))
      mixed == IF cfg.direction = "rtl" /\ useDirectionalMarkers
               THEN handleMixedContent(result, locale) ELSE result
  IN IF useDirectionalMarkers THEN applyDirectionalMarkers(mixed, locale) ELSE mixed

processRTLPluralization(key, count, locale, pluralRule, params, useDirectionalMarkers, customRule) ==
  LET cfg == getPluralConfig(locale)
      cat == IF customRule # NoRule THEN Ok(customRuleFn(customRule, count))
             ELSE getPluralCategory(count, locale)
  IN
  IF ~cat.ok THEN cat
  ELSE
    LET category == cat.v
        looked == categoryKeys(category)
        keys == IF looked = Undefined THEN <<"other">> ELSE looked
    IN
    IF keys = FunctionValue THEN Throw("TypeError")     \* for...of over a non-iterable
    ELSE
      LET template == SelectTemplate(pluralRule, keys, RuleLookup(pluralRule, "other"))
      IN
      IF template = Undefined THEN Throw("TypeError") \* undefined.replace(...)
      ELSE
        Ok([text |-> RenderTemplate(template, formatNumberForLocale(count, locale), locale,
                                    params, useDirectionalMarkers),
            category |-> category,
            rtl |-> [isRTL |-> cfg.direction = "rtl",
                     direction |-> cfg.direction,
                     script |-> cfg.numberingSystem],
            numberFormat |-> [originalNumber |-> count,
                              formattedNumber |-> formatNumberForLocale(count, locale),
                              numberingSystem |-> cfg.numberingSystem]])

validCategories == {"zero", "one", "two", "few", "many", "other", "0", "1", "2"}

validatePluralRule(pluralRule) ==
  IF ~Truthy(RuleLookup(pluralRule, "other")) THEN FALSE
  ELSE \A k \in DOMAIN pluralRule : k \in validCategories

(***************************************************************************)
(* rtl.utils.ts                                                            *)
(***************************************************************************)
\* the keys of the RTL_LOCALES table, in the order of the table
RTL_LOCALES ==
  <<<<"a", "r">>,
    <<"a", "r", "-", "S", "A">>,
    <<"a", "r", "-", "E", "G">>,
    <<"a", "r", "-", "A", "E">>,
    <<"a", "r", "-", "L", "B">>,
    <<"a", "r", "-", "J", "O">>,
    <<"a", "r", "-", "S", "Y">>,
    <<"a", "r", "-", "I", "Q">>,
    <<"a", "r", "-", "K", "W">>,
    <<"a", "r", "-", "B", "H">>,
    <<"a", "r", "-", "Q", "A">>,
    <<"a", "r", "-", "O", "M">>,
    <<"a", "r", "-", "Y", "E">>,
    <<"a", "r", "-", "L", "Y">>,
    <<"a", "r", "-", "D", "Z">>,
    <<"a", "r", "-", "M", "A">>,
    <<"a", "r", "-", "T", "N">>,
    <<"a", "r", "-", "M", "R">>,
    <<"a", "r", "-", "S", "D">>,
    <<"a", "r", "-", "T", "D">>,
    <<"a", "r", "-", "K", "M">>,
    <<"a", "r", "-", "D", "J">>,
    <<"a", "r", "-", "S", "O">>,
    <<"a", "r", "-", "E", "R">>,
    <<"a", "r", "-", "I", "L">>,
    <<"a", "r", "-", "P", "S">>,
    <<"h", "e">>,
    <<"h", "e", "-", "I", "L">>,
    <<"f", "a">>,
    <<"f", "a", "-", "I", "R">>,
    <<"f", "a", "-", "A", "F">>,
    <<"u", "r">>,
    <<"u", "r", "-", "P", "K">>,
    <<"u", "r", "-", "I", "N">>,
    <<"k", "u">>,
    <<"k", "u", "-", "I", "Q">>,
    <<"k", "u", "-", "I", "R">>,
    <<"p", "s">>,
    <<"p", "s", "-", "A", "F">>,
    <<"p", "s", "-", "P", "K">>,
    <<"s", "d">>,
    <<"s", "d", "-", "P", "K">>,
    <<"s", "d", "-", "I", "N">>,
    <<"u", "g">>,
    <<"u", "g", "-", "C", "N">>,
    <<"y", "i">>,
    <<"y", "i", "-", "U", "S">>,
    <<"y", "i", "-", "I", "L">>,
    <<"a", "z", "-", "A", "r", "a", "b">>,
    <<"a", "z", "-", "A", "r", "a", "b", "-", "I", "R">>,
    <<"k", "s">>,
    <<"k", "s", "-", "I", "N">>,
    <<"k", "s", "-", "P", "K">>,
    <<"b", "a", "l">>,
    <<"b", "a", "l", "-", "P", "K">>,
    <<"b", "a", "l", "-", "I", "R">>,
    <<"b", "a", "l", "-", "A", "F">>>>

\* the script of a key of the table
RTL_LOCALE_Script(key) == IF StartsWith(key, <<"h", "e">>) \/ StartsWith(key, <<"y", "i">>) THEN "Hebr" ELSE "Arab"

UpperSeq == <<"A", "B", "C", "D", "E", "F", "G", "H", "I", "J", "K", "L", "M",
              "N", "O", "P", "Q", "R", "S", "T", "U", "V", "W", "X", "Y", "Z">>
LowerSeq == <<"a", "b", "c", "d", "e", "f", "g", "h", "i", "j", "k", "l", "m",
              "n", "o", "p", "q", "r", "s", "t", "u", "v", "w", "x", "y", "z">>
LowerOf == [c \in UpperLetters |-> LowerSeq[CHOOSE i \in 1..26 : UpperSeq[i] = c]]

ToLowerChar(c) == IF c \in UpperLetters THEN LowerOf[c] ELSE c

toLowerCase(t) == [i \in 1..Len(t) |-> ToLowerChar(t[i])]

\* `normalizedLocale in locales`: an own key or a member inherited from Object.prototype
InLocales(t) ==
  (\E i \in 1..Len(RTL_LOCALES) : RTL_LOCALES[i] = t) \/ t \in ObjectPrototypeKeys

\* the uncached computation of isRTL on the lower-cased tag
isRTLCompute(normalizedLocale) ==
  InLocales(normalizedLocale)
    \/ \E i \in 1..Len(RTL_LOCALES) : StartsWith(normalizedLocale, toLowerCase(RTL_LOCALES[i]))

\* isRTL: the result with the memo afterwards
isRTL(locale, rc) ==
  IF locale = <<>> THEN [value |-> FALSE, rtlCache |-> rc]
  ELSE LET normalizedLocale == toLowerCase(locale) IN
       IF normalizedLocale \in DOMAIN rc
       THEN [value |-> rc[normalizedLocale], rtlCache |-> rc]
       ELSE [value |-> isRTLCompute(normalizedLocale),
             rtlCache |-> [k \in (DOMAIN rc) \cup {normalizedLocale} |->
                             IF k = normalizedLocale THEN isRTLCompute(normalizedLocale)
                             ELSE rc[k]]]

\* the info of a table entry: its script and its key (which stands for its name)
NoInfo == [isRTL |-> FALSE, direction |-> "ltr", script |-> UndefinedTag, entry |-> Undefined]
InfoOf(key) == [isRTL |-> TRUE, direction |-> "rtl", script |-> RTL_LOCALE_Script(key), entry |-> key]
\* locales[name] for a name inherited from Object.prototype: a function, whose
\* script is undefined and whose name is the function's name
InheritedInfo(name) == [isRTL |-> TRUE, direction |-> "rtl", script |-> UndefinedTag,
                        entry |-> <<"function">> \o name]

\* the uncached computation of getRTLInfo on the lower-cased tag
getRTLInfoCompute(normalizedLocale) ==
  IF \E i \in 1..Len(RTL_LOCALES) : RTL_LOCALES[i] = normalizedLocale
    THEN InfoOf(normalizedLocale)
  ELSE IF normalizedLocale \in ObjectPrototypeKeys THEN InheritedInfo(normalizedLocale)
  ELSE IF \E i \in 1..Len(RTL_LOCALES) : StartsWith(normalizedLocale, toLowerCase(RTL_LOCALES[i]))
    THEN InfoOf(RTL_LOCALES[CHOOSE i \in 1..Len(RTL_LOCALES) :
                   /\ StartsWith(normalizedLocale, toLowerCase(RTL_LOCALES[i]))
                   /\ \A j \in 1..(i - 1) :
                        ~StartsWith(normalizedLocale, toLowerCase(RTL_LOCALES[j]))])
  ELSE NoInfo

\* getRTLInfo: the result with the memo afterwards
getRTLInfo(locale, ric) ==
  IF locale = <<>> THEN [value |-> NoInfo, rtlInfoCache |-> ric]
  ELSE LET normalizedLocale == toLowerCase(locale) IN
       IF normalizedLocale \in DOMAIN ric
       THEN [value |-> ric[normalizedLocale], rtlInfoCache |-> ric]
       ELSE [value |-> getRTLInfoCompute(normalizedLocale),
             rtlInfoCache |-> [k \in (DOMAIN ric) \cup {normalizedLocale} |->
                                 IF k = normalizedLocale
                                 THEN getRTLInfoCompute(normalizedLocale) ELSE ric[k]]]

EmptyRtlCache == [k \in {} |-> FALSE]
EmptyRtlInfoCache == [k \in {} |-> NoInfo]

\* the code point of a character named "U+XXXX"
\* the characters of the model that are written by code point, with their code points
CodePointTable ==
  << <<"U+05D0", 1488>>, <<"U+05D1", 1489>>, <<"U+05D2", 1490>>, <<"U+05D3", 1491>>,
     <<"U+05D4", 1492>>, <<"U+05D5", 1493>>, <<"U+05D6", 1494>>, <<"U+05D7", 1495>>,
     <<"U+05D8", 1496>>, <<"U+05D9", 1497>>, <<"U+05DB", 1499>>, <<"U+05DC", 1500>>,
     <<"U+05DE", 1502>>, <<"U+05E0", 1504>>, <<"U+05E1", 1505>>, <<"U+05E2", 1506>>,
     <<"U+05E4", 1508>>, <<"U+05E6", 1510>>, <<"U+05E7", 1511>>, <<"U+05E8", 1512>>,
     <<"U+05E9", 1513>>, <<"U+05EA", 1514>>, <<"U+0660", 1632>>, <<"U+0661", 1633>>,
     <<"U+0662", 1634>>, <<"U+0663", 1635>>, <<"U+0664", 1636>>, <<"U+0665", 1637>>,
     <<"U+0666", 1638>>, <<"U+0667", 1639>>, <<"U+0668", 1640>>, <<"U+0669", 1641>>,
     <<"U+058F", 1423>>, <<"U+0590", 1424>>, <<"U+05FF", 1535>>, <<"U+0600", 1536>>,
     <<"U+0627", 1575>>, <<"U+06FF", 1791>>, <<"U+0700", 1792>>, <<"U+074F", 1871>>,
     <<"U+0750", 1872>>, <<"U+077F", 1919>>, <<"U+0780", 1920>>, <<"U+089F", 2207>>,
     <<"U+08A0", 2208>>, <<"U+08FF", 2303>>, <<"U+0900", 2304>>, <<"U+FB4F", 64335>>,
     <<"U+FB50", 64336>>, <<"U+FDFF", 65023>>, <<"U+FE00", 65024>>,
     <<"U+FE6F", 65135>>, <<"U+FE70", 65136>>, <<"U+FEFF", 65279>>,
     <<"U+FF00", 65280>>, <<"U+200D", 8205>>, <<"U+200E", 8206>>, <<"U+200F", 8207>>,
     <<"U+2029", 8233>>, <<"U+202A", 8234>>, <<"U+202B", 8235>>, <<"U+202C", 8236>>,
     <<"U+202D", 8237>>, <<"U+202E", 8238>>, <<"U+202F", 8239>>, <<"U+2065", 8293>>,
     <<"U+2066", 8294>>, <<"U+2067", 8295>>, <<"U+2068", 8296>>, <<"U+2069", 8297>>,
     <<"U+206A", 8298>> >>

\* the code point of a character; 97 ('a') stands for the ASCII characters
CodePointOf ==
  [c \in {CodePointTable[i][1] : i \in 1..Len(CodePointTable)} |->
     CodePointTable[CHOOSE i \in 1..Len(CodePointTable) : CodePointTable[i][1] = c][2]]
CodePoint(c) == IF c \in DOMAIN CodePointOf THEN CodePointOf[c] ELSE 97

\* a variant that also matches U+200E, U+202A, U+202C, U+202D and U+2066
IsRTLChar_AnyControl(c) ==
  LET cp == CodePoint(c) IN
  \/ cp >= 1424 /\ cp <= 1535
  \/ cp >= 1536 /\ cp <= 1791
  \/ cp >= 1872 /\ cp <= 1919
  \/ cp >= 2208 /\ cp <= 2303
  \/ cp >= 64336 /\ cp <= 65023
  \/ cp >= 65136 /\ cp <= 65279
  \/ cp \in {8206, 8207} \cup (8234..8238) \cup (8294..8297)
\* RTL_REGEX: the character ranges of RTL_RANGES
IsRTLChar(c) ==
  LET cp == CodePoint(c) IN
  \/ cp >= 1424 /\ cp <= 1535
  \/ cp >= 1536 /\ cp <= 1791
  \/ cp >= 1872 /\ cp <= 1919
  \/ cp >= 2208 /\ cp <= 2303
  \/ cp >= 64336 /\ cp <= 65023
  \/ cp >= 65136 /\ cp <= 65279
  \/ cp \in {8207, 8235, 8238, 8295, 8296, 8297}

getTextDirection(text) ==
  IF text = <<>> THEN "ltr"
  ELSE LET hasRTL == \E i \in 1..Len(text) : IsRTLChar(text[i])
           hasLTR == \E i \in 1..Len(text) : IsLetter(text[i])
       IN IF hasRTL /\ hasLTR THEN "auto" ELSE IF hasRTL THEN "rtl" ELSE "ltr"

\* containsRTLText: false for the empty text, else RTL_REGEX.test(text)
containsRTLText(text) ==
  IF text = <<>> THEN FALSE ELSE \E i \in 1..Len(text) : IsRTLChar(text[i])

\* wrapWithDirectionalMarkers
wrapWithDirectionalMarkers(text, direction) ==
  IF direction = "auto" \/ text = <<>> THEN text
  ELSE IF direction = "ltr" THEN <<LRM>> \o text
  ELSE <<RLM>> \o text

\* the character class of the replace in cleanDirectionalMarkers
DirectionalMarkers ==
  {"U+200E", "U+200F", "U+202A", "U+202B", "U+202C", "U+202D", "U+202E",
   "U+2066", "U+2067", "U+2068", "U+2069"}

\* a variant that leaves U+200F in place
cleanDirectionalMarkers_KeepsMark(text) ==
  SelectSeq(text, LAMBDA c : c \notin DirectionalMarkers \ {"U+200F"})
cleanDirectionalMarkers(text) ==
  SelectSeq(text, LAMBDA c : c \notin DirectionalMarkers)

(***************************************************************************)
(* TranslationService: parameter interpolation.                            *)
(***************************************************************************)
\* the length of the longest prefix of word characters
RECURSIVE WordLen(_)
WordLen(t) == IF t # <<>> /\ IsWordChar(t[1]) THEN 1 + WordLen(Tail(t)) ELSE 0

Drop(t, n) == SubSeq(t, n + 1, Len(t))

\* the length matched by (?:\.\w+)* at the start of t
RECURSIVE MorePathLen(_)
MorePathLen(t) ==
  IF t # <<>> /\ t[1] = "." /\ WordLen(Tail(t)) > 0
  THEN 1 + WordLen(Tail(t)) + MorePathLen(Drop(t, 1 + WordLen(Tail(t))))
  ELSE 0

\* the length matched by \w+(?:\.\w+)* at the start of t, 0 when there is no match
PathLen(t) == IF WordLen(t) = 0 THEN 0 ELSE WordLen(t) + MorePathLen(Drop(t, WordLen(t)))

\* params[name] of a parameter object: an own property, an inherited member, undefined
FunctionText == <<"[function]">>
ParamLookup(params, name) ==
  IF \E i \in 1..Len(params) : params[i].name = name
  THEN params[CHOOSE i \in 1..Len(params) : params[i].name = name].value
  ELSE IF name \in ObjectPrototypeKeys THEN FunctionText
  ELSE Undefined

T_length == <<"l", "e", "n", "g", "t", "h">>

T_p == <<"p">>
T_z == <<"z">>

\* value?.[prop]: undefined on undefined and null, a property of the nested
\* object, the length of a string
StringProp(value, prop) ==
  IF value = Undefined \/ value = NullValue THEN Undefined
  ELSE IF value = ObjectValue
    THEN (IF prop = T_p THEN <<"A", "l">>
          ELSE IF prop = T_z THEN NullValue
          ELSE IF prop \in ObjectPrototypeKeys THEN FunctionText
          ELSE Undefined)
  ELSE IF prop = T_length THEN NumToString(Len(value))
  ELSE Undefined

\* key.split('.').reduce((obj, prop) => obj?.[prop], params)
RECURSIVE ResolveRest(_, _)
ResolveRest(value, path) ==
  IF path = <<>> THEN value
  ELSE LET w == WordLen(Tail(path))
       IN ResolveRest(StringProp(value, SubSeq(path, 2, 1 + w)), Drop(path, 1 + w))

ResolvePath(path, params) ==
  ResolveRest(ParamLookup(params, SubSeq(path, 1, WordLen(path))), Drop(path, WordLen(path)))

\* first pass: /\$\{(\w+(?:\.\w+)*)\}/g with the default prefix and suffix
RECURSIVE InterpolatePrimary(_, _)
InterpolatePrimary(t, params) ==
  IF t = <<>> THEN <<>>
  ELSE IF StartsWith(t, <<"$", "{">>)
          /\ PathLen(Drop(t, 2)) > 0
          /\ Len(t) > 2 + PathLen(Drop(t, 2))
          /\ t[3 + PathLen(Drop(t, 2))] = "}"
    THEN LET n == PathLen(Drop(t, 2))
             v == ResolvePath(SubSeq(t, 3, 2 + n), params)
         IN (IF v # Undefined THEN StringOf(v) ELSE SubSeq(t, 1, n + 3))
              \o InterpolatePrimary(Drop(t, n + 3), params)
    ELSE <<t[1]>> \o InterpolatePrimary(Tail(t), params)

\* second pass: /\{(\w+)\}/g
RECURSIVE InterpolateSecondary(_, _)
InterpolateSecondary(t, params) ==
  IF t = <<>> THEN <<>>
  ELSE IF t[1] = "{" /\ WordLen(Tail(t)) > 0
          /\ Len(t) > 1 + WordLen(Tail(t))
          /\ t[2 + WordLen(Tail(t))] = "}"
    THEN LET n == WordLen(Tail(t))
             v == ParamLookup(params, SubSeq(t, 2, 1 + n))
         IN (IF v # Undefined THEN StringOf(v) ELSE SubSeq(t, 1, n + 2))
              \o InterpolateSecondary(Drop(t, n + 2), params)
    ELSE <<t[1]>> \o InterpolateSecondary(Tail(t), params)

interpolateParams(text, params) ==
  InterpolateSecondary(InterpolatePrimary(text, params), params)

\* { count, ...params }
CountFirst(count, params) ==
  IF \E i \in 1..Len(params) : params[i].name = N_count
  THEN <<[name |-> N_count, value |-> ParamLookup(params, N_count)]>>
         \o SelectSeq(params, LAMBDA e : e.name # N_count)
  ELSE <<[name |-> N_count, value |-> NumToString(count)]>> \o params

\* `${key} (${count})`
FallbackText(key, count) == key \o <<" ", "(">> \o NumToString(count) \o <<")">>

(***************************************************************************)
(* TranslationService: configuration and translation store.                *)
(***************************************************************************)
\* an entry of the store: a plain string, a category map, a member inherited
\* from Object.prototype, or undefined
EmptyRule == [k \in {} |-> <<>>]
StrEntry(text) == [t |-> "str", s |-> text, m |-> EmptyRule]
MapEntry(rule) == [t |-> "map", s |-> <<>>, m |-> rule]
FunctionEntry == [t |-> "function", s |-> <<>>, m |-> EmptyRule]
UndefinedEntry == [t |-> "undefined", s |-> <<>>, m |-> EmptyRule]

EntryTruthy(e) == e.t \in {"map", "function"} \/ (e.t = "str" /\ e.s # <<>>)

K_ITEMS == <<"I", "T">>
K_BAD == <<"B", "A", "D">>
K_PLAIN == <<"P">>
K_NONE == <<"N", "O">>
K_NAME == <<"N", "M">>

R_ItemsEn ==
  [k \in {"one", "few", "other"} |->
     CASE k = "one" -> <<"1", " ", "i">>
       [] k = "few" -> Placeholder(N_count) \o <<" ", "f">>
       [] k = "other" -> Placeholder(N_count) \o <<" ", "o">>]

R_ItemsAr ==
  [k \in {"0", "few", "other"} |->
     CASE k = "0" -> <<"n", "o", "n", "e">>
       [] k = "few" -> <<"a", "7", " ">> \o Placeholder(N_count) \o <<" ", "F">>
       [] k = "other" -> Placeholder(N_count) \o <<" ", "O">>]

R_Bad == [k \in {"one"} |-> <<"1", " ", "i">>]

\* the translation files: locale -> key -> entry
TranslationFiles ==
  [l \in {L_en, L_ar} |->
     IF l = L_en
     THEN [k \in {K_ITEMS, K_BAD, K_PLAIN, K_NAME} |->
             CASE k = K_ITEMS -> MapEntry(R_ItemsEn)
               [] k = K_BAD -> MapEntry(R_Bad)
               [] k = K_PLAIN -> StrEntry(<<"p", " ">> \o Placeholder(N_count))
               [] k = K_NAME -> StrEntry(Placeholder(<<"a">>))]
     ELSE [k \in {K_ITEMS} |-> MapEntry(R_ItemsAr)]]

\* the pluralization section of the configuration; a property that is not
\* given is "undefined" (the given object replaces the default object whole)
PluralizationDefaults ==
  [enabled |-> "true", formatNumbers |-> "true", useDirectionalMarkers |-> "true",
   validatePluralRules |-> "true", customRules |-> [l \in {} |-> NoRule]]

PluralizationEnabledOnly ==
  [enabled |-> "true", formatNumbers |-> UndefinedTag, useDirectionalMarkers |-> UndefinedTag,
   validatePluralRules |-> UndefinedTag, customRules |-> [l \in {} |-> NoRule]]

PluralizationDisabled == [PluralizationEnabledOnly EXCEPT !.enabled = "false"]

DefaultTtl == 3600

ServiceConfig(strategy, cacheEnabled, statisticsEnabled, pluralization) ==
  [defaultLocale |-> L_en, fallbackStrategy |-> strategy, cacheEnabled |-> cacheEnabled,
   cacheTtl |-> DefaultTtl, statisticsEnabled |-> statisticsEnabled,
   trackKeyUsage |-> TRUE, trackLocaleUsage |-> TRUE,
   pluralization |-> pluralization]

\* the configurations the service is constructed with
Configs ==
  { ServiceConfig("default", TRUE, TRUE, PluralizationDefaults),
    ServiceConfig("default", FALSE, FALSE,
                  [PluralizationDefaults EXCEPT !.useDirectionalMarkers = "false"]),
    ServiceConfig("default", TRUE, FALSE,
                  [PluralizationDefaults EXCEPT !.formatNumbers = "false"]),
    ServiceConfig("default", FALSE, TRUE,
                  [PluralizationDefaults EXCEPT !.customRules = [l \in {L_ar} |-> "alwaysMany"]]),
    ServiceConfig("default", FALSE, FALSE, PluralizationEnabledOnly),
    ServiceConfig("default", TRUE, TRUE, PluralizationDisabled),
    ServiceConfig("throw", TRUE, TRUE, PluralizationDefaults),
    ServiceConfig("throw", FALSE, FALSE, PluralizationEnabledOnly) }

\* a configuration flag ("true", "false" or "undefined") used as a condition
Flag(x) == x = "true"
\* flag ?? true
FlagOrTrue(x) == x = "true" \/ x = UndefinedTag

EmptyUsage == [k \in {} |-> 0]

\* no object from getStats is held
NotHeld == [taken |-> FALSE]

InitialStats ==
  [totalRequests |-> 0, successfulTranslations |-> 0, failedTranslations |-> 0,
   cacheHits |-> 0, cacheMisses |-> 0, localeUsage |-> EmptyUsage, keyUsage |-> EmptyUsage]

EmptyCache == [k \in {} |-> [value |-> <<>>, timestamp |-> 0]]

\* this.translations before the constructor loads the files
EmptyStore == [l \in {} |-> [k \in {} |-> UndefinedEntry]]

\* loadTranslations: every file of the directory replaces the entry of its
\* locale in this.translations; the other entries stay; a store still empty
\* afterwards becomes { [defaultLocale]: {} }
loadTranslationsFrom(current, directory) ==
  LET loaded == [l \in (DOMAIN current) \cup (DOMAIN directory) |->
                   IF l \in DOMAIN directory THEN directory[l] ELSE current[l]]
  IN IF DOMAIN loaded = {} THEN [l \in {L_en} |-> [k \in {} |-> UndefinedEntry]]
     ELSE loaded

\* the constructor's loadTranslations with the translation files present
loadTranslations == loadTranslationsFrom(EmptyStore, TranslationFiles)

(***************************************************************************)
(* TranslationService: private helpers.  Each takes and returns the parts  *)
(* of the service state it reads and writes.                               *)
(***************************************************************************)
Bump(usage, k) ==
  [x \in (DOMAIN usage) \cup {k} |->
     IF x = k THEN (IF k \in DOMAIN usage THEN usage[k] ELSE 0) + 1 ELSE usage[x]]

updateStats(st, key, locale) ==
  IF ~config.statisticsEnabled THEN st
  ELSE [st EXCEPT !.totalRequests = @ + 1,
                  !.localeUsage = IF config.trackLocaleUsage THEN Bump(@, locale) ELSE @,
                  !.keyUsage = IF config.trackKeyUsage THEN Bump(@, key) ELSE @]

\* this.translations[locale]?.[key]
TranslationLookup(locale, key) ==
  IF locale \in DOMAIN translations /\ key \in DOMAIN translations[locale]
    THEN translations[locale][key]
  ELSE IF (locale \in DOMAIN translations \/ locale \in ObjectPrototypeKeys)
          /\ key \in ObjectPrototypeKeys
    THEN FunctionEntry
  ELSE UndefinedEntry

CountIf(c, n) == IF config.statisticsEnabled /\ c THEN n + 1 ELSE n

getTranslationValue(key, locale, useFallback, st) ==
  IF EntryTruthy(TranslationLookup(locale, key))
  THEN [res |-> Ok(TranslationLookup(locale, key)),
        stats |-> [st EXCEPT !.successfulTranslations = CountIf(TRUE, @)]]
  ELSE IF useFallback /\ locale # config.defaultLocale
          /\ EntryTruthy(TranslationLookup(config.defaultLocale, key))
  THEN [res |-> Ok(TranslationLookup(config.defaultLocale, key)),
        stats |-> [st EXCEPT !.failedTranslations = CountIf(TRUE, @)]]
  ELSE [res |-> IF config.fallbackStrategy = "throw" THEN Throw("Error") ELSE Ok(StrEntry(key)),
        stats |-> [st EXCEPT !.failedTranslations = CountIf(TRUE, @)]]

\* JSON.stringify(params), '' when params is not given (the empty sequence)
RECURSIVE JsonMembers(_)
JsonMembers(params) ==
  IF params = <<>> THEN <<>>
  ELSE <<"\"">> \o params[1].name \o <<"\"", ":", "\"">> \o params[1].value \o <<"\"">>
         \o (IF Len(params) > 1 THEN <<",">> ELSE <<>>) \o JsonMembers(Tail(params))

ParamsStr(params) == IF params = <<>> THEN <<>> ELSE <<"{">> \o JsonMembers(params) \o <<"}">>

generatePluralCacheKey(key, count, locale, params) ==
  <<"p", "l", "u", "r", "a", "l", ":">> \o key \o <<":">> \o NumToString(count)
    \o <<":">> \o locale \o <<":">> \o ParamsStr(params)

\* the cached value or "null", with the cache and the statistics afterwards
Null == <<"null">>
getFromCache(cacheKey, ch, st) ==
  IF cacheKey \notin DOMAIN ch
  THEN [value |-> Null, cache |-> ch,
        stats |-> [st EXCEPT !.cacheMisses = CountIf(TRUE, @)]]
  ELSE IF now - ch[cacheKey].timestamp
            > (IF config.cacheTtl = 0 THEN DefaultTtl ELSE config.cacheTtl) * 1000
  THEN [value |-> Null, cache |-> [k \in (DOMAIN ch) \ {cacheKey} |-> ch[k]],
        stats |-> [st EXCEPT !.cacheMisses = CountIf(TRUE, @)]]
  ELSE [value |-> ch[cacheKey].value, cache |-> ch, stats |-> st]

setCache(ch, cacheKey, value) ==
  [k \in (DOMAIN ch) \cup {cacheKey} |->
     IF k = cacheKey THEN [value |-> value, timestamp |-> now] ELSE ch[k]]

PluralResult(text, isRtl, direction) ==
  [text |-> text, category |-> "other",
   rtl |-> [isRTL |-> isRtl, direction |-> direction, script |-> UndefinedTag],
   numberFormat |-> UndefinedTag]

(***************************************************************************)
(* TranslationService: pluralization.                                      *)
(***************************************************************************)
getPluralTranslation(key, count, locale, params, st) ==
  LET tv == getTranslationValue(key, locale, TRUE, st)
      translation == tv.res.v
  IN
  IF ~tv.res.ok THEN [res |-> tv.res, stats |-> tv.stats]
  ELSE IF translation.t = "str"
    THEN [res |-> Ok(interpolateParams(translation.s, CountFirst(count, params))),
          stats |-> tv.stats]
  ELSE IF translation.t = "map"
    THEN IF Flag(config.pluralization.validatePluralRules) /\ ~validatePluralRule(translation.m)
         THEN [res |-> Ok(FallbackText(key, count)), stats |-> tv.stats]
         ELSE LET r == processRTLPluralization(key, count, locale, translation.m, params,
                         FlagOrTrue(config.pluralization.useDirectionalMarkers), NoRule)
              IN [res |-> IF r.ok THEN Ok(r.v.text) ELSE r, stats |-> tv.stats]
  ELSE [res |-> Ok(FallbackText(key, count)), stats |-> tv.stats]

\* processPluralization: the result with the statistics and the isRTL memo afterwards
processPluralization(key, count, locale, params, st, rc) ==
  LET tv == getTranslationValue(key, locale, TRUE, st)
      translation == tv.res.v
      rtl == isRTL(locale, rc)          \* this.isRTLLocale(locale)
  IN
  IF ~tv.res.ok THEN [res |-> tv.res, stats |-> tv.stats, rtlCache |-> rc]
  ELSE IF translation.t = "str"
    THEN LET text == interpolateParams(translation.s, CountFirst(count, params))
         IN [res |-> Ok(PluralResult(text, rtl.value, getTextDirection(text))),
             stats |-> tv.stats, rtlCache |-> rtl.rtlCache]
  ELSE IF translation.t = "map"
    THEN IF Flag(config.pluralization.validatePluralRules) /\ ~validatePluralRule(translation.m)
         THEN [res |-> Ok(PluralResult(FallbackText(key, count), rtl.value, "ltr")),
               stats |-> tv.stats, rtlCache |-> rtl.rtlCache]
         ELSE [res |-> processRTLPluralization(key, count, locale, translation.m, params,
                         FlagOrTrue(config.pluralization.useDirectionalMarkers), NoRule),
               stats |-> tv.stats, rtlCache |-> rc]
  ELSE [res |-> Ok(PluralResult(FallbackText(key, count), rtl.value, "ltr")),
        stats |-> tv.stats, rtlCache |-> rtl.rtlCache]

\* translatePluralWithOptions: the result with the cache and the statistics afterwards
translatePluralWithOptions(key, count, locale, params, formatNumbers, useDirectionalMarkers) ==
  IF ~Flag(config.pluralization.enabled)
  THEN [res |-> Ok(FallbackText(key, count)), cache |-> cache, stats |-> stats]
  ELSE
    LET st1 == updateStats(stats, key, locale)
        cacheKey == generatePluralCacheKey(key, count, locale, params)
        got == IF config.cacheEnabled THEN getFromCache(cacheKey, cache, st1)
               ELSE [value |-> Null, cache |-> cache, stats |-> st1]
    IN
    IF config.cacheEnabled /\ got.value # Null /\ got.value # <<>>
    THEN [res |-> Ok(got.value), cache |-> got.cache,
          stats |-> [got.stats EXCEPT !.cacheHits = CountIf(TRUE, @)]]
    ELSE
      LET r == getPluralTranslation(key, count, locale, params, got.stats)
      IN [res |-> r.res,
          cache |-> IF config.cacheEnabled /\ r.res.ok
                    THEN setCache(got.cache, cacheKey, r.res.v) ELSE got.cache,
          stats |-> r.stats]

(***************************************************************************)
(* TranslationService: translate.                                          *)
(***************************************************************************)
\* JSON.stringify of a category map: the integer-like keys first, then the
\* named keys as the file lists them
CategoryOrder == <<"0", "1", "2", "zero", "one", "two", "few", "many", "other">>
RECURSIVE JsonOfKeys(_, _)
JsonOfKeys(rule, keys) ==
  IF keys = <<>> THEN <<>>
  ELSE <<"\"", keys[1], "\"", ":", "\"">> \o rule[keys[1]] \o <<"\"">>
         \o (IF Len(keys) > 1 THEN <<",">> ELSE <<>>) \o JsonOfKeys(rule, Tail(keys))
JsonOfRule(rule) ==
  <<"{">> \o JsonOfKeys(rule, SelectSeq(CategoryOrder, LAMBDA k : k \in DOMAIN rule)) \o <<"}">>

\* typeof translation === 'string' ? translation : JSON.stringify(translation)
TextOfEntry(e) ==
  IF e.t = "str" THEN e.s ELSE IF e.t = "map" THEN JsonOfRule(e.m) ELSE Undefined

\* getTranslation: the text (or the throw) with the statistics afterwards
getTranslation(key, locale, useFallback, st) ==
  IF EntryTruthy(TranslationLookup(locale, key))
  THEN [res |-> Ok(TextOfEntry(TranslationLookup(locale, key))),
        stats |-> [st EXCEPT !.successfulTranslations = CountIf(TRUE, @)]]
  ELSE IF useFallback /\ locale # config.defaultLocale
          /\ EntryTruthy(TranslationLookup(config.defaultLocale, key))
  THEN [res |-> Ok(TextOfEntry(TranslationLookup(config.defaultLocale, key))),
        stats |-> [st EXCEPT !.failedTranslations = CountIf(TRUE, @)]]
  ELSE [res |-> IF config.fallbackStrategy = "throw" THEN Throw("Error") ELSE Ok(key),
        stats |-> [st EXCEPT !.failedTranslations = CountIf(TRUE, @)]]

\* `${key}:${locale}:${paramsStr}`
generateCacheKey(key, locale, params) == key \o <<":">> \o locale \o <<":">> \o ParamsStr(params)

\* translateWithOptions: the result with the cache and the statistics afterwards
translateWithOptions(key, locale, params, useFallback) ==
  LET st1 == updateStats(stats, key, locale)
      cacheKey == generateCacheKey(key, locale, params)
      got == IF config.cacheEnabled THEN getFromCache(cacheKey, cache, st1)
             ELSE [value |-> Null, cache |-> cache, stats |-> st1]
  IN
  IF config.cacheEnabled /\ got.value # Null /\ got.value # <<>>
  THEN [res |-> Ok(got.value), cache |-> got.cache,
        stats |-> [got.stats EXCEPT !.cacheHits = CountIf(TRUE, @)]]
  ELSE
    LET t == getTranslation(key, locale, useFallback, got.stats)
        r == IF ~t.res.ok \/ params = <<>> THEN t.res
             ELSE IF t.res.v = Undefined THEN Throw("TypeError")
             ELSE Ok(interpolateParams(t.res.v, params))
    IN [res |-> r,
        cache |-> IF config.cacheEnabled /\ r.ok
                  THEN setCache(got.cache, cacheKey, r.v) ELSE got.cache,
        stats |-> t.stats]

(***************************************************************************)
(* Inputs of the service calls.                                            *)
(***************************************************************************)
Keys == {K_ITEMS, K_BAD, K_PLAIN, K_NONE}
Locales == {L_en, L_ar, L_ku}
Counts == {1, 3}
ParamSets == {<<>>}

\* the guards that keep the statistics counters and the cache within the bounds
StatsWithin == config.statisticsEnabled =>
  /\ stats.totalRequests < MaxRequests
  /\ stats.successfulTranslations + stats.failedTranslations < MaxRequests
CacheWithin(cacheKey) == config.cacheEnabled =>
  \/ Cardinality(DOMAIN cache) < MaxCacheEntries
  \/ cacheKey \in DOMAIN cache

RtlWithin(locale) ==
  \/ Cardinality(DOMAIN rtlCache) < MaxRtlEntries
  \/ toLowerCase(locale) \in DOMAIN rtlCache

(***************************************************************************)
(* The service as a state machine.                                         *)
(***************************************************************************)
Init ==
  /\ config \in Configs
  /\ translations = loadTranslations
  /\ cache = EmptyCache
  /\ stats = InitialStats
  /\ now = 0
  /\ files = TranslationFiles
  /\ rtlCache = EmptyRtlCache
  /\ rtlInfoCache = EmptyRtlInfoCache
  /\ last = [op |-> "init"]
  /\ held = NotHeld

TranslatePlural(key, count, locale, params) ==
  /\ \E r \in {translatePluralWithOptions(key, count, locale, params, TRUE, TRUE)} :
       /\ cache' = r.cache
       /\ stats' = r.stats
       /\ last' = [op |-> "translatePlural", key |-> key, count |-> count,
                   locale |-> locale, params |-> params, formatNumbers |-> TRUE,
                   res |-> r.res]
  /\ UNCHANGED <<config, translations, now, files, rtlCache, rtlInfoCache, held>>

TranslatePluralWithOptions(key, count, locale, params, formatNumbers, useDirectionalMarkers) ==
  /\ \E r \in {translatePluralWithOptions(key, count, locale, params, formatNumbers,
                                          useDirectionalMarkers)} :
       /\ cache' = r.cache
       /\ stats' = r.stats
       /\ last' = [op |-> "translatePluralWithOptions", key |-> key, count |-> count,
                   locale |-> locale, params |-> params, formatNumbers |-> formatNumbers,
                   res |-> r.res]
  /\ UNCHANGED <<config, translations, now, files, rtlCache, rtlInfoCache, held>>

TranslatePluralWithResult(key, count, locale, params) ==
  /\ \E r \in {processPluralization(key, count, locale, params, stats, rtlCache)} :
       /\ stats' = r.stats
       /\ rtlCache' = r.rtlCache
       /\ last' = [op |-> "translatePluralWithResult", key |-> key, count |-> count,
                   locale |-> locale, params |-> params,
                   formatNumbers |-> FlagOrTrue(config.pluralization.formatNumbers),
                   res |-> r.res]
  /\ UNCHANGED <<config, translations, cache, now, files, rtlInfoCache, held>>

Next ==
  \/ /\ StatsWithin
     /\ \E key \in Keys, count \in Counts, locale \in Locales, params \in ParamSets :
          /\ CacheWithin(generatePluralCacheKey(key, count, locale, params))
          /\ TranslatePlural(key, count, locale, params)
  \/ /\ StatsWithin
     /\ \E key \in Keys, count \in Counts, locale \in Locales, params \in ParamSets,
           formatNumbers \in BOOLEAN :
          /\ CacheWithin(generatePluralCacheKey(key, count, locale, params))
          /\ TranslatePluralWithOptions(key, count, locale, params, formatNumbers,
                                        ~formatNumbers)
  \/ /\ StatsWithin
     /\ \E key \in Keys, count \in Counts, locale \in Locales, params \in ParamSets :
          /\ RtlWithin(locale)
          /\ TranslatePluralWithResult(key, count, locale, params)

Spec == Init /\ [][Next]_vars

(***************************************************************************)
(* translate, the clock, the cache and the translation files.              *)
(***************************************************************************)
Translate(key, locale, params) ==
  /\ \E r \in {translateWithOptions(key, locale, params, TRUE)} :
       /\ cache' = r.cache
       /\ stats' = r.stats
       /\ last' = [op |-> "translate", key |-> key, locale |-> locale, params |-> params,
                   useFallback |-> TRUE, res |-> r.res]
  /\ UNCHANGED <<config, translations, now, files, rtlCache, rtlInfoCache, held>>

TranslateWithOptions(key, locale, params, useFallback) ==
  /\ \E r \in {translateWithOptions(key, locale, params, useFallback)} :
       /\ cache' = r.cache
       /\ stats' = r.stats
       /\ last' = [op |-> "translateWithOptions", key |-> key, locale |-> locale,
                   params |-> params, useFallback |-> useFallback, res |-> r.res]
  /\ UNCHANGED <<config, translations, now, files, rtlCache, rtlInfoCache, held>>

\* clearCache
ClearCache ==
  /\ cache' = EmptyCache
  /\ last' = [op |-> "clearCache"]
  /\ UNCHANGED <<config, translations, stats, now, files, rtlCache, rtlInfoCache, held>>

\* reloadTranslations: loadTranslations, then clearCache
ReloadTranslations ==
  /\ translations' = loadTranslationsFrom(translations, files)
  /\ cache' = EmptyCache
  /\ last' = [op |-> "reloadTranslations"]
  /\ UNCHANGED <<config, stats, now, files, rtlCache, rtlInfoCache, held>>

\* Date.now() moves on to the instant t
Tick(t) ==
  /\ t > now
  /\ now' = t
  /\ UNCHANGED <<config, translations, cache, stats, last, files, rtlCache, rtlInfoCache, held>>

\* the environment removes the file of a locale from the translations directory
RemoveTranslationFile(locale) ==
  /\ locale \in DOMAIN files
  /\ files' = [l \in (DOMAIN files) \ {locale} |-> files[l]]
  /\ last' = [op |-> "removeTranslationFile", locale |-> locale]
  /\ UNCHANGED <<config, translations, cache, stats, now, rtlCache, rtlInfoCache, held>>

\* the environment writes the file of a locale
WriteTranslationFile(locale, content) ==
  /\ (IF locale \in DOMAIN files THEN files[locale] # content ELSE TRUE)
  /\ files' = [l \in (DOMAIN files) \cup {locale} |-> IF l = locale THEN content ELSE files[l]]
  /\ last' = [op |-> "writeTranslationFile", locale |-> locale]
  /\ UNCHANGED <<config, translations, cache, stats, now, rtlCache, rtlInfoCache, held>>

\* a configuration { cache: { enabled: true, ttl }, statistics: { enabled: true } }
CacheConfig(strategy, ttl) ==
  [ServiceConfig(strategy, TRUE, TRUE, PluralizationDefaults)
     EXCEPT !.cacheTtl = ttl, !.trackKeyUsage = FALSE, !.trackLocaleUsage = FALSE]

MaxCalls == 3
CallsWithin == config.statisticsEnabled => stats.totalRequests < MaxCalls

\* the instants, in milliseconds, at which the calls are made
TimePoints == {0, 1, 1000, 1001, 3600000, 3600001}

(***************************************************************************)
(* The cache: repeated calls while time passes.                            *)
(***************************************************************************)
P_empty == <<[name |-> <<"a">>, value |-> <<>>]>>
P_v == <<[name |-> <<"a">>, value |-> <<"v">>]>>
CacheKeys == {K_PLAIN, K_NAME}
CacheParamSets == {P_empty, P_v}
CacheConfigs == {CacheConfig("default", ttl) : ttl \in {0, 1, DefaultTtl}}

InitCache ==
  /\ config \in CacheConfigs
  /\ translations = loadTranslations
  /\ cache = EmptyCache
  /\ stats = InitialStats
  /\ now = 0
  /\ files = TranslationFiles
  /\ rtlCache = EmptyRtlCache
  /\ rtlInfoCache = EmptyRtlInfoCache
  /\ last = [op |-> "init"]
  /\ held = NotHeld

NextCache ==
  \/ /\ CallsWithin
     /\ \E key \in CacheKeys, params \in CacheParamSets : Translate(key, L_en, params)
  \/ /\ CallsWithin
     /\ \E key \in CacheKeys, params \in CacheParamSets : TranslatePlural(key, 1, L_en, params)
  \/ \E t \in TimePoints : Tick(t)
  \/ ClearCache

SpecCache == InitCache /\ [][NextCache]_vars

(***************************************************************************)
(* The store: fallback, reloading and the translation files.               *)
(***************************************************************************)
StoreKeys == {K_PLAIN, K_NONE, T_valueOf}
StoreLocales == {L_en, L_ar}
StoreConfigs ==
  { CacheConfig("default", DefaultTtl), CacheConfig("throw", DefaultTtl),
    [CacheConfig("default", DefaultTtl) EXCEPT !.cacheEnabled = FALSE] }
\* the en file after K_PLAIN was taken out of it
EnWithoutPlain == [k \in {K_ITEMS, K_NAME} |-> TranslationFiles[L_en][k]]

InitStore ==
  /\ config \in StoreConfigs
  /\ translations = loadTranslations
  /\ cache = EmptyCache
  /\ stats = InitialStats
  /\ now = 0
  /\ files = TranslationFiles
  /\ rtlCache = EmptyRtlCache
  /\ rtlInfoCache = EmptyRtlInfoCache
  /\ last = [op |-> "init"]
  /\ held = NotHeld

NextStore ==
  \/ /\ CallsWithin
     /\ \E key \in StoreKeys, locale \in StoreLocales : Translate(key, locale, <<>>)
  \/ /\ CallsWithin
     /\ \E key \in StoreKeys, locale \in StoreLocales, useFallback \in BOOLEAN :
          TranslateWithOptions(key, locale, <<>>, useFallback)
  \/ ClearCache
  \/ ReloadTranslations
  \/ \E locale \in StoreLocales : RemoveTranslationFile(locale)
  \/ WriteTranslationFile(L_en, EnWithoutPlain)

SpecStore == InitStore /\ [][NextStore]_vars

(***************************************************************************)
(* The exported functions of the engine, called directly.                  *)
(***************************************************************************)
P_x == <<"x">>
P_y == <<"y">>
EngineLocales ==
  {L_en, L_ar, L_arMA, L_arSA, L_he, L_heIL, L_fa, L_faIR, L_ur, L_ku, L_AR, L_x, T_valueOf}
EngineCounts == (0 - MaxNegative)..MaxCount
HebrewNumbers == 0..MaxHebrew

\* a template that names its key: the letter, a space, the count
Tpl(letter) == <<letter, " ">> \o Placeholder(N_count)

R_Full ==
  [k \in validCategories |->
     CASE k = "0" -> Tpl("a") [] k = "zero" -> Tpl("z")
       [] k = "1" -> Tpl("b") [] k = "one" -> Tpl("n")
       [] k = "2" -> Tpl("c") [] k = "two" -> Tpl("t")
       [] k = "few" -> Tpl("f") [] k = "many" -> Tpl("m")
       [] k = "other" -> <<"7", " ">> \o Placeholder(P_x) \o Tpl("o")]
R_EmptyNumeric ==
  [k \in {"0", "zero", "1", "one", "other"} |->
     CASE k = "0" -> <<>> [] k = "zero" -> Tpl("z")
       [] k = "1" -> <<>> [] k = "one" -> Tpl("n")
       [] k = "other" -> Tpl("o")]
R_OnlyOther == [k \in {"other"} |-> Tpl("o")]
R_NamedOnly ==
  [k \in {"zero", "one", "two", "other"} |->
     CASE k = "zero" -> Tpl("z") [] k = "one" -> Tpl("n")
       [] k = "two" -> Tpl("t") [] k = "other" -> Tpl("o")]

\* '{x} ${x.length} ${count}': the secondary syntax and a dotted path
R_Syntax ==
  [k \in {"other"} |->
     <<"{", "x", "}", " ">> \o Placeholder(<<"x", ".", "l", "e", "n", "g", "t", "h">>)
       \o <<" ">> \o Placeholder(N_count)]

EngineRules == {R_Full, R_EmptyNumeric, R_OnlyOther, R_NamedOnly, R_Bad, R_Syntax}
EngineRuleCounts == {-1, 0, 1, 2, 3, 11, 100}
EngineRuleLocales == {L_en, L_ar, L_arMA, L_he, L_ku, T_valueOf}
CustomRules == {NoRule, "simplified", "alwaysMany", "unknownTag", "inheritedTag"}
EngineParamSets ==
  { <<>>,
    <<[name |-> P_x, value |-> <<"v">>]>>,
    <<[name |-> P_x, value |-> Placeholder(P_y)], [name |-> P_y, value |-> <<"Y">>]>> }

InitEngine ==
  /\ config = ServiceConfig("default", TRUE, TRUE, PluralizationDefaults)
  /\ translations = loadTranslations
  /\ cache = EmptyCache
  /\ stats = InitialStats
  /\ now = 0
  /\ files = TranslationFiles
  /\ rtlCache = EmptyRtlCache
  /\ rtlInfoCache = EmptyRtlInfoCache
  /\ last = [op |-> "init"]
  /\ held = NotHeld

GetPluralConfig(locale) ==
  /\ last' = [op |-> "getPluralConfig", locale |-> locale, res |-> getPluralConfig(locale)]
  /\ UNCHANGED <<config, translations, cache, stats, now, files, rtlCache, rtlInfoCache, held>>

GetPluralCategory(count, locale) ==
  /\ last' = [op |-> "getPluralCategory", count |-> count, locale |-> locale,
              res |-> getPluralCategory(count, locale)]
  /\ UNCHANGED <<config, translations, cache, stats, now, files, rtlCache, rtlInfoCache, held>>

FormatNumberForLocale(num, locale) ==
  /\ last' = [op |-> "formatNumberForLocale", num |-> num, locale |-> locale,
              res |-> formatNumberForLocale(num, locale)]
  /\ UNCHANGED <<config, translations, cache, stats, now, files, rtlCache, rtlInfoCache, held>>

ProcessRTLPluralization(key, count, locale, pluralRule, params, useDirectionalMarkers, customRule) ==
  /\ last' = [op |-> "processRTLPluralization", key |-> key, count |-> count,
              locale |-> locale, pluralRule |-> pluralRule, params |-> params,
              useDirectionalMarkers |-> useDirectionalMarkers, customRule |-> customRule,
              res |-> processRTLPluralization(key, count, locale, pluralRule, params,
                                              useDirectionalMarkers, customRule)]
  /\ UNCHANGED <<config, translations, cache, stats, now, files, rtlCache, rtlInfoCache, held>>


\* interpolateParams: templates in both syntaxes and parameter objects
T_a == <<"a">>
T_b == <<"b">>
T_o == <<"o">>
BracePlaceholder(name) == <<"{">> \o name \o <<"}">>
InterpolateTemplates ==
  { <<"h", " ">> \o Placeholder(T_a),
    BracePlaceholder(T_a) \o <<"!">>,
    Placeholder(T_a) \o <<"-">> \o BracePlaceholder(T_b),
    Placeholder(<<"o", ".", "p">>) \o Placeholder(<<"o", ".", "z">>),
    Placeholder(<<"o", ".", "q", ".", "r">>) \o Placeholder(T_o),
    Placeholder(<<"a", ".", "l", "e", "n", "g", "t", "h">>),
    Placeholder(T_valueOf),
    <<"$", "a", " ", "{", "}", " ", "$", "{", "}">> }
InterpolateValuesOfA ==
  {<<"v">>, <<>>, NullValue, Undefined, BracePlaceholder(T_b), Placeholder(T_b)}
InterpolateParamSets ==
  {<<>>} \cup
  { <<[name |-> T_a, value |-> v]>> \o rest :
      v \in InterpolateValuesOfA,
      rest \in { <<>>,
                 <<[name |-> T_b, value |-> <<"X">>]>>,
                 <<[name |-> T_o, value |-> ObjectValue]>>,
                 <<[name |-> T_b, value |-> <<"X">>], [name |-> T_o, value |-> ObjectValue]>> } }

InterpolateParams(text, params) ==
  /\ last' = [op |-> "interpolateParams", text |-> text, params |-> params,
              res |-> interpolateParams(text, params)]
  /\ UNCHANGED <<config, translations, cache, stats, now, files, rtlCache, rtlInfoCache, held>>

\* the locales of both numeral lists, and locales of neither
NumeralLocales ==
  ARABIC_NUMERAL_CONFIG.eastern.locales \cup ARABIC_NUMERAL_CONFIG.western.locales
    \cup {L_en, L_he, L_ku}

GetNumberingSystem(locale) ==
  /\ last' = [op |-> "getNumberingSystem", locale |-> locale,
              res |-> getNumberingSystem(locale),
              eastern |-> usesEasternArabicNumerals(locale),
              western |-> usesWesternArabicNumerals(locale)]
  /\ UNCHANGED <<config, translations, cache, stats, now, files, rtlCache, rtlInfoCache, held>>

\* one call per behaviour: the functions are pure, so a second call adds nothing
NextEngine ==
  \/ /\ last.op = "init"
     /\ \E locale \in NumeralLocales : GetNumberingSystem(locale)
  \/ /\ last.op = "init"
     /\ \E locale \in EngineLocales : GetPluralConfig(locale)
  \/ /\ last.op = "init"
     /\ \E count \in EngineCounts, locale \in EngineLocales : GetPluralCategory(count, locale)
  \/ /\ last.op = "init"
     /\ \E num \in HebrewNumbers \cup EngineCounts, locale \in EngineLocales :
          FormatNumberForLocale(num, locale)
  \/ /\ last.op = "init"
     /\ \E count \in EngineRuleCounts, locale \in EngineRuleLocales, pluralRule \in EngineRules,
           params \in EngineParamSets, useDirectionalMarkers \in BOOLEAN,
           customRule \in CustomRules :
          ProcessRTLPluralization(K_ITEMS, count, locale, pluralRule, params,
                                  useDirectionalMarkers, customRule)
  \/ /\ last.op = "init"
     /\ \E text \in InterpolateTemplates, params \in InterpolateParamSets :
          InterpolateParams(text, params)

SpecEngine == InitEngine /\ [][NextEngine]_vars

(***************************************************************************)
(* rtl.utils as a state machine: the memoized lookups and the clearing of  *)
(* their caches, called in any order.                                      *)
(***************************************************************************)
L_empty == <<>>
L_Ar_ma == <<"A", "r", "-", "m", "a">>
L_HE_il == <<"H", "E", "-", "i", "l">>
L_arz == <<"a", "r", "z">>

RtlLocales == {L_empty, L_en, L_ar, L_AR, L_Ar_ma, L_arMA, L_arSA, L_HE_il, L_ku, L_arz, L_x,
               T_constructor, T_valueOf}

RtlInfoWithin(locale) ==
  \/ Cardinality(DOMAIN rtlInfoCache) < MaxRtlEntries
  \/ toLowerCase(locale) \in DOMAIN rtlInfoCache

InitRtl ==
  /\ config = ServiceConfig("default", TRUE, TRUE, PluralizationDefaults)
  /\ translations = loadTranslations
  /\ cache = EmptyCache
  /\ stats = InitialStats
  /\ now = 0
  /\ files = TranslationFiles
  /\ rtlCache = EmptyRtlCache
  /\ rtlInfoCache = EmptyRtlInfoCache
  /\ last = [op |-> "init"]
  /\ held = NotHeld

IsRTL(locale) ==
  /\ RtlWithin(locale)
  /\ rtlCache' = isRTL(locale, rtlCache).rtlCache
  /\ last' = [op |-> "isRTL", locale |-> locale, res |-> isRTL(locale, rtlCache).value]
  /\ UNCHANGED <<config, translations, cache, stats, now, files, rtlInfoCache, held>>

GetRTLInfo(locale) ==
  /\ RtlInfoWithin(locale)
  /\ rtlInfoCache' = getRTLInfo(locale, rtlInfoCache).rtlInfoCache
  /\ last' = [op |-> "getRTLInfo", locale |-> locale,
              res |-> getRTLInfo(locale, rtlInfoCache).value]
  /\ UNCHANGED <<config, translations, cache, stats, now, files, rtlCache, held>>

\* clearRTLCaches (the lazily built table is rebuilt with the same content)
ClearRTLCaches ==
  /\ rtlCache' = EmptyRtlCache
  /\ rtlInfoCache' = EmptyRtlInfoCache
  /\ last' = [op |-> "clearRTLCaches"]
  /\ UNCHANGED <<config, translations, cache, stats, now, files, held>>

NextRtl ==
  \/ \E locale \in RtlLocales : IsRTL(locale)
  \/ \E locale \in RtlLocales : GetRTLInfo(locale)
  \/ ClearRTLCaches

SpecRtl == InitRtl /\ [][NextRtl]_vars

\* the table rule: the lower-cased tag equals, or starts with the lower-cased
\* form of, some entry of the table
DocumentedIsRTL(locale) ==
  /\ locale # <<>>
  /\ \E i \in 1..Len(RTL_LOCALES) :
       \/ toLowerCase(locale) = toLowerCase(RTL_LOCALES[i])
       \/ StartsWith(toLowerCase(locale), toLowerCase(RTL_LOCALES[i]))

\* C14: isRTL(locale) is true exactly when the lower-cased tag equals, or
\* starts with the lower-cased form of, some entry of the RTL locale table
\* (false for empty input), whatever isRTL, getRTLInfo and clearRTLCaches
\* calls came before.
C14_IsRTLByTable ==
  last.op = "isRTL" => last.res = DocumentedIsRTL(last.locale)

\* the memo alone: every isRTL result is the result of the uncached computation
C14_MemoUnobservable ==
  last.op = "isRTL" =>
    last.res = (last.locale # <<>> /\ isRTLCompute(toLowerCase(last.locale)))


(***************************************************************************)
(* The text functions of rtl.utils as a state machine: detection, wrapping *)
(* and cleaning, the cleaning also applied to what a wrapping returned.    *)
(***************************************************************************)
MaxTextLen == 2

\* one character at, just below and just above each end of every range of
\* RTL_RANGES, and the neighbours of the control characters
BoundaryChars ==
  {"U+058F", "U+0590", "U+05FF", "U+0600", "U+0627", "U+06FF", "U+0700", "U+074F", "U+0750",
   "U+077F", "U+0780", "U+089F", "U+08A0", "U+08FF", "U+0900", "U+FB4F", "U+FB50", "U+FDFF",
   "U+FE00", "U+FE6F", "U+FE70", "U+FEFF", "U+FF00", "U+200D", "U+2029", "U+202F", "U+2065",
   "U+206A", "1", " "}
BidiChars == {"a", "U+05D0"} \cup DirectionalMarkers
BidiTexts ==
  {<<c>> : c \in BoundaryChars} \cup UNION {[1..n -> BidiChars] : n \in 0..MaxTextLen}
Directions == {"ltr", "rtl", "auto"}

InitBidi ==
  /\ config = ServiceConfig("default", TRUE, TRUE, PluralizationDefaults)
  /\ translations = loadTranslations
  /\ cache = EmptyCache
  /\ stats = InitialStats
  /\ now = 0
  /\ files = TranslationFiles
  /\ rtlCache = EmptyRtlCache
  /\ rtlInfoCache = EmptyRtlInfoCache
  /\ last = [op |-> "init"]
  /\ held = NotHeld

ContainsRTLText(text) ==
  /\ last' = [op |-> "containsRTLText", text |-> text, res |-> containsRTLText(text)]
  /\ UNCHANGED <<config, translations, cache, stats, now, files, rtlCache, rtlInfoCache, held>>

WrapWithDirectionalMarkers(text, direction) ==
  /\ last' = [op |-> "wrapWithDirectionalMarkers", text |-> text, direction |-> direction,
              res |-> wrapWithDirectionalMarkers(text, direction)]
  /\ UNCHANGED <<config, translations, cache, stats, now, files, rtlCache, rtlInfoCache, held>>

\* `from` keeps the call whose result is being cleaned
CleanDirectionalMarkers(text) ==
  /\ last' = [op |-> "cleanDirectionalMarkers", text |-> text, from |-> last,
              res |-> cleanDirectionalMarkers(text)]
  /\ UNCHANGED <<config, translations, cache, stats, now, files, rtlCache, rtlInfoCache, held>>

NextBidi ==
  \/ /\ last.op = "init"
     /\ \E text \in BidiTexts : ContainsRTLText(text)
  \/ /\ last.op = "init"
     /\ \E text \in BidiTexts, direction \in Directions :
          WrapWithDirectionalMarkers(text, direction)
  \/ /\ last.op = "init"
     /\ \E text \in BidiTexts : CleanDirectionalMarkers(text)
  \/ /\ last.op = "wrapWithDirectionalMarkers"
     /\ CleanDirectionalMarkers(last.res)

SpecBidi == InitBidi /\ [][NextBidi]_vars

\* the Unicode blocks Hebrew, Arabic, Arabic Supplement, Arabic Extended-A,
\* Arabic Presentation Forms-A and Arabic Presentation Forms-B
InRtlBlock(cp) ==
  \E block \in {<<1424, 1535>>, <<1536, 1791>>, <<1872, 1919>>, <<2208, 2303>>,
                <<64336, 65023>>, <<65136, 65279>>} :
    cp \in block[1]..block[2]

\* the controls of right-to-left direction and of isolates: U+200F, U+202B,
\* U+202E, U+2067, U+2068, U+2069
RtlControls == {"U+200F", "U+202B", "U+202E", "U+2067", "U+2068", "U+2069"}

\* C15 as stated: containsRTLText(text) is true exactly when text has a code
\* point in one of the six blocks or any bidirectional control character
\* (U+200E, U+200F, U+202A-U+202E, U+2066-U+2069); false for the empty text.
C15_AnyBidiControl ==
  last.op = "containsRTLText" =>
    last.res = \E i \in 1..Len(last.text) :
                 InRtlBlock(CodePoint(last.text[i])) \/ last.text[i] \in DirectionalMarkers

\* C15 amended: containsRTLText(text) is true exactly when text has a code
\* point in one of the six blocks or one of the controls U+200F, U+202B,
\* U+202E, U+2067, U+2068, U+2069; false for the empty text and for a text
\* whose only controls are U+200E, U+202A, U+202C, U+202D or U+2066.
C15_RtlControlsOnly ==
  last.op = "containsRTLText" =>
    last.res = \E i \in 1..Len(last.text) :
                 InRtlBlock(CodePoint(last.text[i])) \/ last.text[i] \in RtlControls

\* a text of left-to-right controls only was examined and found not RTL
C15_Witness ==
  /\ last.op = "containsRTLText"
  /\ last.text = <<"U+200E", "U+202A">>
  /\ last.res = FALSE

\* C16: for a non-empty text without directional control characters,
\* cleaning what wrapWithDirectionalMarkers returned for 'rtl' or 'ltr' gives
\* the text back; wrapWithDirectionalMarkers returns the text unchanged for
\* 'auto' and for the empty text.
C16_WrapCleanRoundTrip ==
  /\ (/\ last.op = "cleanDirectionalMarkers"
      /\ last.from.op = "wrapWithDirectionalMarkers"
      /\ last.from.direction \in {"rtl", "ltr"}
      /\ last.from.text # <<>>
      /\ \A i \in 1..Len(last.from.text) : last.from.text[i] \notin DirectionalMarkers)
     => last.res = last.from.text
  /\ (/\ last.op = "wrapWithDirectionalMarkers"
      /\ (last.direction = "auto" \/ last.text = <<>>))
     => last.res = last.text

\* a marked Hebrew text came back from the cleaning as it was before the wrapping
C16_Witness ==
  /\ last.op = "cleanDirectionalMarkers"
  /\ last.from.op = "wrapWithDirectionalMarkers"
  /\ last.from.direction = "rtl"
  /\ last.from.text = <<"U+05D0", "a">>
  /\ last.from.res = <<RLM, "U+05D0", "a">>
  /\ last.res = <<"U+05D0", "a">>


(***************************************************************************)
(* Properties of the engine functions.                                     *)
(***************************************************************************)
InFamily(locale, base) == locale = base \/ StartsWith(locale, base \o <<"-">>)

ArabicTable(n) ==
  IF n = 0 THEN "zero"
  ELSE IF n = 1 THEN "one"
  ELSE IF n = 2 THEN "two"
  ELSE IF n >= 3 /\ n <= 10 THEN "few"
  ELSE IF n >= 11 /\ n <= 99 THEN "many"
  ELSE "other"

HebrewTable(n) ==
  IF n = 1 THEN "one"
  ELSE IF n = 2 THEN "two"
  ELSE IF n >= 3 /\ n <= 10 THEN "few"
  ELSE IF n >= 11 THEN "many"
  ELSE "other"

OneOtherTable(n) == IF n = 1 THEN "one" ELSE "other"

DocumentedCategory(n, locale) ==
  IF InFamily(locale, L_ar) THEN ArabicTable(n)
  ELSE IF InFamily(locale, L_he) THEN HebrewTable(n)
  ELSE OneOtherTable(n)

\* C1: getPluralCategory(n, locale) is the Arabic table for ar and ar-*, the
\* Hebrew table for he and he-*, and "one" for 1 and "other" for every other
\* count for fa, ur and every locale without a configuration.
C1_BuiltInRuleTables ==
  last.op = "getPluralCategory" =>
    /\ last.res.ok
    /\ last.res.v = DocumentedCategory(last.count, last.locale)

\* the tables themselves, on every locale whose lookup yields a configuration
C1_TablesOnResolvedLocales ==
  (last.op = "getPluralCategory" /\ last.res.ok) =>
    last.res.v = DocumentedCategory(last.count, last.locale)

DocumentedLookup(locale) ==
  IF locale \in ConfiguredLocales THEN RTL_PLURAL_CONFIGS[locale]
  ELSE IF BaseLocale(locale) \in ConfiguredLocales THEN RTL_PLURAL_CONFIGS[BaseLocale(locale)]
  ELSE DefaultPluralConfig

\* C2: getPluralConfig(locale) is the entry of the exact tag, else the entry
\* of the part before the first "-", else the default configuration (latn,
\* ltr, one-versus-other): a usable configuration for every locale string.
C2_ThreeTierLookup ==
  last.op = "getPluralConfig" =>
    /\ last.res.kind = "config"
    /\ last.res = DocumentedLookup(last.locale)

ResolvedCategory(count, locale, customRule) ==
  IF customRule # NoRule THEN customRuleFn(customRule, count)
  ELSE DocumentedCategory(count, locale)

\* the alias keys of a category, in the order the specification gives them
DocumentedAliases(category) ==
  CASE category = "zero" -> <<"0", "zero">>
    [] category = "one" -> <<"1", "one">>
    [] category = "two" -> <<"2", "two">>
    [] category = "few" -> <<"few">>
    [] category = "many" -> <<"many">>
    [] category = "other" -> <<"other">>
    [] OTHER -> <<>>

PresentAliases(pluralRule, category) ==
  SelectSeq(DocumentedAliases(category), LAMBDA k : k \in DOMAIN pluralRule)

RenderedFrom(template) ==
  RenderTemplate(template, formatNumberForLocale(last.count, last.locale), last.locale,
                 last.params, last.useDirectionalMarkers)

\* C3: for an entry that has an "other" template, when none of the alias keys
\* of the resolved category is present (a custom rule returning a tag that is
\* not a known category included), the "other" template is selected and the
\* call does not throw.
C3_FallsBackToOther ==
  ( /\ last.op = "processRTLPluralization"
    /\ "other" \in DOMAIN last.pluralRule
    /\ PresentAliases(last.pluralRule,
                      ResolvedCategory(last.count, last.locale, last.customRule)) = <<>> ) =>
    /\ last.res.ok
    /\ last.res.v.text = RenderedFrom(last.pluralRule["other"])

\* C4: the alias keys of the resolved category are tried in the order
\* zero -> "0","zero"; one -> "1","one"; two -> "2","two"; few; many; other,
\* and the first key present in the entry wins, whatever its value.
C4_FirstPresentAliasWins ==
  ( /\ last.op = "processRTLPluralization"
    /\ PresentAliases(last.pluralRule,
                      ResolvedCategory(last.count, last.locale, last.customRule)) # <<>> ) =>
    /\ last.res.ok
    /\ last.res.v.text =
         RenderedFrom(last.pluralRule[
           Head(PresentAliases(last.pluralRule,
                               ResolvedCategory(last.count, last.locale, last.customRule)))])

\* the same, for the entries whose templates are all non-empty and the
\* locales whose lookup yields a configuration
C4_FirstTruthyAliasWins ==
  ( /\ last.op = "processRTLPluralization"
    /\ last.locale \notin ObjectPrototypeKeys
    /\ \A k \in DOMAIN last.pluralRule : last.pluralRule[k] # <<>>
    /\ PresentAliases(last.pluralRule,
                      ResolvedCategory(last.count, last.locale, last.customRule)) # <<>> ) =>
    /\ last.res.ok
    /\ last.res.v.text =
         RenderedFrom(last.pluralRule[
           Head(PresentAliases(last.pluralRule,
                               ResolvedCategory(last.count, last.locale, last.customRule)))])

DocumentedHebrew(n) ==
  IF n = 0 THEN <<"0">>
  ELSE IF n <= 99 THEN hebrewNumerals(n)
  ELSE IF n <= 499
    THEN hebrewNumerals((n \div 100) * 100) \o
         (IF n % 100 = 0 THEN <<>> ELSE hebrewNumerals(n % 100))
  ELSE NumToString(n)

\* C10: for a Hebrew locale formatNumberForLocale(n) is "0" for 0, the table
\* string for 1..99, the letter of 100/200/300/400 followed by the table
\* string of the remainder, and the plain decimal string of n above 999 and
\* whenever a component is not in the table (a hundreds digit of 5..9).
C10_HebrewNumerals ==
  ( /\ last.op = "formatNumberForLocale"
    /\ InFamily(last.locale, L_he)
    /\ last.num >= 0 ) =>
    last.res = DocumentedHebrew(last.num)

\* the same below 500 and above 999, and on the round hundreds
C10_HebrewNumeralsOutsideGap ==
  ( /\ last.op = "formatNumberForLocale"
    /\ InFamily(last.locale, L_he)
    /\ last.num >= 0
    /\ (last.num < 500 \/ last.num > 999 \/ last.num % 100 = 0) ) =>
    last.res = DocumentedHebrew(last.num)

\* the text with every maximal run of ASCII digits put between LRE and PDF
RunStart(t, i) == IsAsciiDigit(t[i]) /\ (i = 1 \/ ~IsAsciiDigit(t[i - 1]))
RunEnd(t, i) == IsAsciiDigit(t[i]) /\ (i = Len(t) \/ ~IsAsciiDigit(t[i + 1]))
RECURSIVE WrapFrom(_, _)
WrapFrom(t, i) ==
  IF i > Len(t) THEN <<>>
  ELSE (IF RunStart(t, i) THEN <<LRE>> ELSE <<>>) \o <<t[i]>>
         \o (IF RunEnd(t, i) THEN <<PDF>> ELSE <<>>) \o WrapFrom(t, i + 1)
DigitRunsWrapped(t) == WrapFrom(t, 1)

\* the template of the category the call resolved, and its interpolation
TemplateOfResult ==
  SelectTemplate(last.pluralRule,
                 IF categoryKeys(last.res.v.category) = Undefined THEN <<"other">>
                 ELSE categoryKeys(last.res.v.category),
                 RuleLookup(last.pluralRule, "other"))

InterpolatedOfResult ==
  InterpolateEntries(TemplateOfResult,
                     WithCount(last.params, formatNumberForLocale(last.count, last.locale)))

EngineReturned == last.op = "processRTLPluralization" /\ last.res.ok

RtlWithMarkers ==
  getPluralConfig(last.locale).direction = "rtl" /\ last.useDirectionalMarkers

\* C9 (as stated): with an RTL locale and useDirectionalMarkers the final
\* text is the interpolated text with every run of ASCII digits wrapped in
\* U+202A ... U+202C and then prefixed with U+200F; otherwise the final text
\* equals the interpolated text.
C9_MarkPrefixed ==
  EngineReturned =>
    last.res.v.text =
      IF RtlWithMarkers THEN <<RLM>> \o DigitRunsWrapped(InterpolatedOfResult)
      ELSE InterpolatedOfResult

\* C9 (amended): whenever processRTLPluralization returns, with a locale whose
\* plural configuration has direction rtl and useDirectionalMarkers the final
\* text is U+202B, the interpolated text with every run of ASCII digits
\* wrapped in U+202A ... U+202C, U+202C; otherwise the final text equals the
\* interpolated text.
C9_EmbeddingWrapped ==
  EngineReturned =>
    last.res.v.text =
      IF RtlWithMarkers THEN <<RLE>> \o DigitRunsWrapped(InterpolatedOfResult) \o <<PDF>>
      ELSE InterpolatedOfResult

\* an Arabic call with markers whose text embeds the digit runs "7" and "100"
C9_Witness ==
  /\ EngineReturned
  /\ RtlWithMarkers
  /\ last.locale = L_arMA
  /\ last.count = 100
  /\ Head(last.res.v.text) = RLE
  /\ Contains(last.res.v.text, <<LRE, "7", PDF>>)
  /\ Contains(last.res.v.text, <<LRE, "1", "0", "0", PDF>>)

(***************************************************************************)
(* Properties of the service.                                              *)
(***************************************************************************)
PluralOps == {"translatePlural", "translatePluralWithOptions", "translatePluralWithResult"}

\* the entry of the key itself in the files of a locale
OwnEntry(locale, key) ==
  IF locale \in DOMAIN translations /\ key \in DOMAIN translations[locale]
  THEN translations[locale][key] ELSE UndefinedEntry

\* the entry a plural call is about: the locale's, else the default locale's
DocumentedEntry(key, locale) ==
  IF OwnEntry(locale, key).t # "undefined" THEN OwnEntry(locale, key)
  ELSE OwnEntry(config.defaultLocale, key)

\* the text a plural call returned, and the category of a detailed result
TextOfLast == IF last.op = "translatePluralWithResult" THEN last.res.v.text ELSE last.res.v
CategoryIsOther == last.op = "translatePluralWithResult" => last.res.v.category = "other"

\* C5: translatePlural and translatePluralWithResult on a category map that
\* lacks "other" never throw and return exactly "<key> (<count>)", with
\* category "other" in the detailed result, under every configuration.
C5_InvalidEntrySafe ==
  ( /\ last.op \in PluralOps
    /\ DocumentedEntry(last.key, last.locale).t = "map"
    /\ "other" \notin DOMAIN DocumentedEntry(last.key, last.locale).m ) =>
    /\ last.res.ok
    /\ TextOfLast = FallbackText(last.key, last.count)
    /\ CategoryIsOther

\* the same under the configurations that set validatePluralRules to true
C5_InvalidEntrySafeWhenValidating ==
  ( /\ last.op \in PluralOps
    /\ Flag(config.pluralization.validatePluralRules)
    /\ DocumentedEntry(last.key, last.locale).t = "map"
    /\ "other" \notin DOMAIN DocumentedEntry(last.key, last.locale).m ) =>
    /\ last.res.ok
    /\ TextOfLast = FallbackText(last.key, last.count)
    /\ CategoryIsOther

\* C6: a plural call for a key that is neither in the requested locale nor in
\* the default locale returns exactly "<key> (<count>)", with category "other"
\* in the detailed result, under the non-throwing fallback strategies.
C6_MissingKeyDegrades ==
  ( /\ last.op \in PluralOps
    /\ config.fallbackStrategy # "throw"
    /\ DocumentedEntry(last.key, last.locale).t = "undefined" ) =>
    /\ last.res.ok
    /\ TextOfLast = FallbackText(last.key, last.count)
    /\ CategoryIsOther

\* the category map a plural call is about has an "other" template
OnValidMap ==
  /\ last.op \in PluralOps
  /\ last.op = "translatePluralWithResult" \/ Flag(config.pluralization.enabled)
  /\ DocumentedEntry(last.key, last.locale).t = "map"
  /\ "other" \in DOMAIN DocumentedEntry(last.key, last.locale).m

CustomRuleOf(locale) ==
  IF locale \in DOMAIN config.pluralization.customRules
  THEN config.pluralization.customRules[locale] ELSE NoRule

\* C7: when pluralization.customRules has a rule for the locale, the plural
\* calls for that locale use the tag the rule returns as the category; the
\* built-in rule stays in force for every other locale.
C7_CustomRuleUsed ==
  OnValidMap =>
    /\ last.res.ok
    /\ TextOfLast =
         processRTLPluralization(last.key, last.count, last.locale,
                                 DocumentedEntry(last.key, last.locale).m, last.params,
                                 FlagOrTrue(config.pluralization.useDirectionalMarkers),
                                 CustomRuleOf(last.locale)).v.text
    /\ last.op = "translatePluralWithResult" =>
         last.res.v.category =
           ResolvedCategory(last.count, last.locale, CustomRuleOf(last.locale))

\* the same for the locales that have no custom rule
C7_BuiltInRuleElsewhere ==
  (OnValidMap /\ CustomRuleOf(last.locale) = NoRule) =>
    /\ last.res.ok
    /\ TextOfLast =
         processRTLPluralization(last.key, last.count, last.locale,
                                 DocumentedEntry(last.key, last.locale).m, last.params,
                                 FlagOrTrue(config.pluralization.useDirectionalMarkers),
                                 NoRule).v.text

FormatNumbersEnabled == last.formatNumbers /\ FlagOrTrue(config.pluralization.formatNumbers)

DocumentedTemplate(pluralRule, category) ==
  IF PresentAliases(pluralRule, category) = <<>> THEN pluralRule["other"]
  ELSE pluralRule[Head(PresentAliases(pluralRule, category))]

\* C8: the count parameter is the locale-formatted numeral string when
\* formatNumbers is enabled and the raw decimal string of count when it is
\* disabled, per call or in the configuration.
C8_FormatNumbersHonoured ==
  OnValidMap =>
    /\ last.res.ok
    /\ TextOfLast =
         RenderTemplate(
           DocumentedTemplate(DocumentedEntry(last.key, last.locale).m,
                              DocumentedCategory(last.count, last.locale)),
           IF FormatNumbersEnabled THEN formatNumberForLocale(last.count, last.locale)
           ELSE NumToString(last.count),
           last.locale, last.params,
           FlagOrTrue(config.pluralization.useDirectionalMarkers))

\* the same for the calls that leave formatNumbers enabled
C8_FormattedWhenEnabled ==
  (OnValidMap /\ FormatNumbersEnabled) =>
    /\ last.res.ok
    /\ TextOfLast =
         RenderTemplate(
           DocumentedTemplate(DocumentedEntry(last.key, last.locale).m,
                              DocumentedCategory(last.count, last.locale)),
           formatNumberForLocale(last.count, last.locale),
           last.locale, last.params,
           FlagOrTrue(config.pluralization.useDirectionalMarkers))


(***************************************************************************)
(* Locale casing.                                                          *)
(***************************************************************************)
\* the tags of the modelled calls that differ from the tag only in casing
Recasings(locale, tags) == {c \in tags : toLowerCase(c) = toLowerCase(locale)}

\* C13: locale tags are case-insensitive: for any re-casing of a tag (e.g.
\* 'AR' for 'ar') the plural category resolves exactly as for the canonical
\* casing.
C13_CategoryCaseInsensitive ==
  last.op = "getPluralCategory" =>
    \A c \in Recasings(last.locale, EngineLocales) :
      last.res = getPluralCategory(last.count, c)

\* the direction lookup taken alone is case-insensitive
C13_IsRTLCaseInsensitive ==
  last.op = "isRTL" =>
    \A c \in Recasings(last.locale, RtlLocales) :
      last.res = (c # <<>> /\ isRTLCompute(toLowerCase(c)))


(***************************************************************************)
(* Interpolation.                                                          *)
(***************************************************************************)
\* one scan of the template: each `${path}` and each `{name}` of the template
\* becomes String(value) when the value resolved for it is not undefined and
\* stays as written otherwise; inserted text is not looked at again
RECURSIVE DocumentedInterpolate(_, _)
DocumentedInterpolate(t, params) ==
  IF t = <<>> THEN <<>>
  ELSE IF StartsWith(t, <<"$", "{">>)
          /\ PathLen(Drop(t, 2)) > 0
          /\ Len(t) > 2 + PathLen(Drop(t, 2))
          /\ t[3 + PathLen(Drop(t, 2))] = "}"
    THEN LET n == PathLen(Drop(t, 2))
             v == ResolvePath(SubSeq(t, 3, 2 + n), params)
         IN (IF v = Undefined THEN SubSeq(t, 1, n + 3) ELSE StringOf(v))
              \o DocumentedInterpolate(Drop(t, n + 3), params)
  ELSE IF t[1] = "{" /\ WordLen(Tail(t)) > 0
          /\ Len(t) > 1 + WordLen(Tail(t))
          /\ t[2 + WordLen(Tail(t))] = "}"
    THEN LET n == WordLen(Tail(t))
             v == ParamLookup(params, SubSeq(t, 2, 1 + n))
         IN (IF v = Undefined THEN SubSeq(t, 1, n + 2) ELSE StringOf(v))
              \o DocumentedInterpolate(Drop(t, n + 2), params)
  ELSE <<t[1]>> \o DocumentedInterpolate(Tail(t), params)

\* a supplied value that carries a brace, the start of either placeholder syntax
BraceInValues(params) ==
  \E i \in 1..Len(params) :
    /\ params[i].value \notin {Undefined, NullValue, ObjectValue}
    /\ Contains(params[i].value, <<"{">>)

\* C11: interpolate replaces each placeholder with String(value) exactly
\* when the value resolved along its (possibly dotted) path is not undefined
\* (null renders as "null") and otherwise leaves the placeholder as written.
C11_PlaceholderReplaced ==
  last.op = "interpolateParams" =>
    last.res = DocumentedInterpolate(last.text, last.params)

\* the same when no supplied value carries a brace
C11_ReplacedWithoutBraceValues ==
  (last.op = "interpolateParams" /\ ~BraceInValues(last.params)) =>
    last.res = DocumentedInterpolate(last.text, last.params)

\* the parameters whose placeholder is in the template and whose value itself
\* holds a placeholder of another supplied parameter
NestedParams(template, params) ==
  {i \in 1..Len(params) :
     /\ params[i].value \notin {Undefined, NullValue, ObjectValue}
     /\ \/ Contains(template, Placeholder(params[i].name))
        \/ Contains(template, BracePlaceholder(params[i].name))
     /\ \E j \in 1..Len(params) :
          /\ j # i
          /\ params[j].value # Undefined
          /\ \/ Contains(params[i].value, Placeholder(params[j].name))
             \/ Contains(params[i].value, BracePlaceholder(params[j].name))}

\* C12: interpolation is single-level on the plain path: a parameter value
\* that holds a placeholder of another supplied parameter appears verbatim
\* in the output of interpolate.
C12_SingleLevel ==
  last.op = "interpolateParams" =>
    \A i \in NestedParams(last.text, last.params) :
      Contains(last.res, last.params[i].value)

\* the same on the pluralization path
C12_SingleLevelPlural ==
  EngineReturned =>
    \A i \in NestedParams(TemplateOfResult, last.params) :
      Contains(last.res.v.text, last.params[i].value)


(***************************************************************************)
(* The cache.                                                              *)
(***************************************************************************)
IsCall(c) == c.op \in {"translate", "translateWithOptions", "translatePlural"}

CacheKeyOf(c) ==
  IF c.op = "translatePlural"
  THEN generatePluralCacheKey(c.key, c.count, c.locale, c.params)
  ELSE generateCacheKey(c.key, c.locale, c.params)

SameCall(c, d) ==
  /\ c.op = d.op
  /\ c.key = d.key
  /\ c.locale = d.locale
  /\ c.params = d.params
  /\ (c.op = "translatePlural" => c.count = d.count)

\* this step is a call of the service (the statistics are enabled)
CallStep == IsCall(last') /\ stats'.totalRequests = stats.totalRequests + 1

\* this step repeats the call before it, whose result is still in the cache
\* and not older than cache.ttl seconds
RepeatedCall ==
  /\ config.cacheEnabled /\ config.statisticsEnabled
  /\ IsCall(last) /\ last.res.ok
  /\ CallStep
  /\ SameCall(last, last')
  /\ CacheKeyOf(last) \in DOMAIN cache
  /\ now - cache[CacheKeyOf(last)].timestamp <= config.cacheTtl * 1000

OneCacheHit ==
  /\ last'.res = last.res
  /\ stats'.cacheHits = stats.cacheHits + 1
  /\ stats'.cacheMisses = stats.cacheMisses
  /\ stats'.successfulTranslations = stats.successfulTranslations
  /\ stats'.failedTranslations = stats.failedTranslations

\* C17: with cache and statistics enabled, a translate or translatePlural
\* call repeated with the same arguments within the TTL, nothing clearing the
\* cache in between, returns the string of the first call and counts exactly
\* one cache hit and nothing else, whatever string the first call produced.
C17_RepeatIsOneHit == [][RepeatedCall => OneCacheHit]_vars

\* the same for first calls that produced a non-empty string
C17_RepeatOfNonEmptyIsOneHit ==
  [][(RepeatedCall /\ last.res.v # <<>>) => OneCacheHit]_vars

\* this step is a call whose cache entry is older than cache.ttl seconds
ExpiredCall ==
  /\ config.cacheEnabled /\ config.statisticsEnabled
  /\ CallStep
  /\ CacheKeyOf(last') \in DOMAIN cache
  /\ now - cache[CacheKeyOf(last')].timestamp > config.cacheTtl * 1000

MissAndFreshEntry ==
  /\ stats'.cacheHits = stats.cacheHits
  /\ stats'.cacheMisses = stats.cacheMisses + 1
  /\ stats'.successfulTranslations + stats'.failedTranslations
       = stats.successfulTranslations + stats.failedTranslations + 1
  /\ CacheKeyOf(last') \in DOMAIN cache'
  /\ cache'[CacheKeyOf(last')].timestamp = now

\* C18: a cached translation is never returned once more than cache.ttl
\* seconds have passed since it was stored: the call counts a cache miss,
\* recomputes the value and stores it with a fresh timestamp, for every
\* configured ttl.
C18_ExpiredIsMiss == [][ExpiredCall => MissAndFreshEntry]_vars

\* the same for a ttl other than 0
C18_ExpiredIsMissForPositiveTtl ==
  [][(ExpiredCall /\ config.cacheTtl # 0) => MissAndFreshEntry]_vars


(***************************************************************************)
(* The store.                                                              *)
(***************************************************************************)
\* the translations a store provides: locale, key and entry
Entries(store) ==
  UNION {{<<l, k, store[l][k]>> : k \in DOMAIN store[l]} : l \in DOMAIN store}

\* C19: after reloadTranslations the in-memory translations are exactly
\* those of the translation files now present (locales and keys no longer
\* provided are gone) and the cache is empty.
C19_ReloadMatchesFiles ==
  last.op = "reloadTranslations" =>
    /\ Entries(translations) = Entries(files)
    /\ cache = EmptyCache

\* the same for the locales whose file is still present
C19_ReloadMatchesPresentFiles ==
  last.op = "reloadTranslations" =>
    /\ \A l \in DOMAIN files : l \in DOMAIN translations /\ translations[l] = files[l]
    /\ cache = EmptyCache

\* after clearCache the next call is a cache miss
C19_MissAfterClearCache ==
  [][(last.op = "clearCache" /\ CallStep /\ config.cacheEnabled)
       => (stats'.cacheMisses = stats.cacheMisses + 1 /\ stats'.cacheHits = stats.cacheHits)]_vars

\* C20: translateWithOptions with useFallback = false never returns the
\* default locale's translation: for a key missing in the requested locale
\* it returns the key (or throws under the 'throw' strategy), whatever calls
\* with useFallback = true came before.
C20_NoFallbackWhenDisabled ==
  (/\ last.op = "translateWithOptions"
   /\ ~last.useFallback
   /\ ~EntryTruthy(TranslationLookup(last.locale, last.key)))
  => last.res = (IF config.fallbackStrategy = "throw" THEN Throw("Error") ELSE Ok(last.key))

\* the same with the cache disabled
C20_NoFallbackWithoutCache ==
  (/\ ~config.cacheEnabled
   /\ last.op = "translateWithOptions"
   /\ ~last.useFallback
   /\ ~EntryTruthy(TranslationLookup(last.locale, last.key)))
  => last.res = (IF config.fallbackStrategy = "throw" THEN Throw("Error") ELSE Ok(last.key))


(***************************************************************************)
(* The resolution order of translate.                                      *)
(***************************************************************************)
\* the store provides an entry of its own for the key in the locale
Provides(locale, key) == locale \in DOMAIN translations /\ key \in DOMAIN translations[locale]

\* the requested locale, then the default locale, then the strategy
DocumentedResolution(key, locale, useFallback) ==
  IF Provides(locale, key) THEN Ok(TextOfEntry(translations[locale][key]))
  ELSE IF useFallback /\ locale # config.defaultLocale /\ Provides(config.defaultLocale, key)
    THEN Ok(TextOfEntry(translations[config.defaultLocale][key]))
  ELSE IF config.fallbackStrategy = "throw" THEN Throw("Error")
  ELSE Ok(key)

\* C21: translate resolves a key in the requested locale, then (useFallback
\* true, locale other than the default) in the default locale, and otherwise
\* returns the key under 'key' and 'default' and throws under 'throw', in
\* which case nothing is cached for the request.
C21_ResolutionOrder ==
  (last.op \in {"translate", "translateWithOptions"} /\ last.params = <<>>) =>
    /\ last.res = DocumentedResolution(last.key, last.locale, last.useFallback)
    /\ ~last.res.ok => CacheKeyOf(last) \notin DOMAIN cache

\* the same with the cache disabled and for keys that are not names of
\* members of Object.prototype
C21_ResolutionOrderOwnKeysNoCache ==
  (/\ last.op \in {"translate", "translateWithOptions"} /\ last.params = <<>>
   /\ ~config.cacheEnabled
   /\ last.key \notin ObjectPrototypeKeys) =>
    last.res = DocumentedResolution(last.key, last.locale, last.useFallback)

\* a request that throws leaves no cache entry
C21_NothingCachedOnThrow ==
  (last.op \in {"translate", "translateWithOptions"} /\ ~last.res.ok) =>
    CacheKeyOf(last) \notin DOMAIN cache


(***************************************************************************)
(* The information of an RTL locale.                                       *)
(***************************************************************************)
\* the positions of the table entries that are the tag, casing aside
ListedAt(locale) ==
  {i \in 1..Len(RTL_LOCALES) : toLowerCase(RTL_LOCALES[i]) = toLowerCase(locale)}
\* the positions of the table entries the tag starts with, casing aside
PrefixAt(locale) ==
  {i \in 1..Len(RTL_LOCALES) : StartsWith(toLowerCase(locale), toLowerCase(RTL_LOCALES[i]))}
Lowest(positions) == CHOOSE i \in positions : \A j \in positions : i <= j

DocumentedInfo(locale) ==
  IF locale = <<>> THEN NoInfo
  ELSE IF ListedAt(locale) # {} THEN InfoOf(RTL_LOCALES[Lowest(ListedAt(locale))])
  ELSE IF PrefixAt(locale) # {} THEN InfoOf(RTL_LOCALES[Lowest(PrefixAt(locale))])
  ELSE NoInfo

\* C22: getRTLInfo returns, for a tag that is itself listed in the RTL table,
\* that entry's own name and script; for a tag not listed, the first entry
\* the tag starts with; and {isRTL false, direction ltr} for unmatched tags.
C22_ExactEntryFirst ==
  last.op = "getRTLInfo" => last.res = DocumentedInfo(last.locale)

\* the same for the tags that are not listed with an upper-case letter and
\* are not names of members of Object.prototype
C22_ExactEntryFirstLowerCaseKeys ==
  (/\ last.op = "getRTLInfo"
   /\ toLowerCase(last.locale) \notin ObjectPrototypeKeys
   /\ \A i \in ListedAt(last.locale) : RTL_LOCALES[i] = toLowerCase(RTL_LOCALES[i])) =>
    last.res = DocumentedInfo(last.locale)


(***************************************************************************)
(* Interpolation on the pluralization path.                                *)
(***************************************************************************)
\* the parameters of the call with the formatted count under `count`
ParamsWithCount == WithCount(last.params, formatNumberForLocale(last.count, last.locale))

\* C23: the text the engine produces for a category-map entry equals
\* interpolate(template, params + count) for the selected template: dotted
\* paths, the `{name}` syntax and unresolved placeholders included.
C23_SameAsInterpolate ==
  (EngineReturned /\ ~last.useDirectionalMarkers) =>
    last.res.v.text = interpolateParams(TemplateOfResult, ParamsWithCount)

\* the same for templates that hold `${name}` placeholders only and
\* parameter values without a brace
C23_SameOnSimplePlaceholders ==
  (/\ EngineReturned /\ ~last.useDirectionalMarkers
   /\ last.pluralRule # R_Syntax
   /\ ~BraceInValues(last.params)) =>
    last.res.v.text = interpolateParams(TemplateOfResult, ParamsWithCount)


(***************************************************************************)
(* The service over entries of every shape: a valid category map, a map    *)
(* without `other`, a map with `other` and a key that is no category, and  *)
(* a plain string, in a left-to-right and in a right-to-left locale.       *)
(***************************************************************************)
K_EXTRA == <<"E", "X">>

\* { other: '${count} o', three: '3 i' }
R_Extra ==
  [k \in {"other", "three"} |->
     IF k = "other" THEN Placeholder(N_count) \o <<" ", "o">> ELSE <<"3", " ", "i">>]

RuleFiles ==
  [l \in {L_en, L_ku} |->
     IF l = L_en
     THEN [k \in {K_ITEMS, K_BAD, K_EXTRA, K_PLAIN} |->
             CASE k = K_ITEMS -> MapEntry(R_ItemsEn)
               [] k = K_BAD -> MapEntry(R_Bad)
               [] k = K_EXTRA -> MapEntry(R_Extra)
               [] k = K_PLAIN -> StrEntry(<<"p", " ">> \o Placeholder(N_count))]
     ELSE [k \in {K_ITEMS, K_PLAIN} |->
             IF k = K_ITEMS THEN MapEntry(R_ItemsEn)
             ELSE StrEntry(<<"p", " ">> \o Placeholder(N_count))]]

RuleConfigs ==
  { ServiceConfig("default", TRUE, TRUE, PluralizationDefaults),
    ServiceConfig("default", TRUE, FALSE, PluralizationDefaults),
    ServiceConfig("default", FALSE, FALSE, PluralizationEnabledOnly) }

RuleKeys == {K_ITEMS, K_BAD, K_EXTRA, K_PLAIN}
\* 'plural:P:1', a key of no file, and the keys translate is called with
K_PLURAL_P_1 == <<"p", "l", "u", "r", "a", "l", ":">> \o K_PLAIN \o <<":", "1">>
PlainKeys == {K_PLAIN, K_PLURAL_P_1}
RuleLocales == {L_en, L_ku}
\* no parameters, and { count: '9' }
RuleParamSets == {<<>>, <<[name |-> N_count, value |-> <<"9">>]>>}

InitRules ==
  /\ config \in RuleConfigs
  /\ translations = loadTranslationsFrom(EmptyStore, RuleFiles)
  /\ cache = EmptyCache
  /\ stats = InitialStats
  /\ now = 0
  /\ files = RuleFiles
  /\ rtlCache = EmptyRtlCache
  /\ rtlInfoCache = EmptyRtlInfoCache
  /\ last = [op |-> "init"]
  /\ held = NotHeld

\* hasPluralRules: the answer (or the throw) with the statistics afterwards
hasPluralRules(key, locale, st) ==
  LET tv == getTranslationValue(key, locale, TRUE, st) IN
  [res |-> IF ~tv.res.ok THEN tv.res
           ELSE Ok(tv.res.v.t = "map" /\ "other" \in DOMAIN tv.res.v.m),
   stats |-> tv.stats]

HasPluralRules(key, locale) ==
  /\ \E r \in {hasPluralRules(key, locale, stats)} :
       /\ stats' = r.stats
       /\ last' = [op |-> "hasPluralRules", key |-> key, locale |-> locale, res |-> r.res]
  /\ UNCHANGED <<config, translations, cache, now, files, rtlCache, rtlInfoCache, held>>

NextRules ==
  \/ /\ StatsWithin
     /\ \E key \in RuleKeys, count \in Counts, locale \in RuleLocales, params \in RuleParamSets :
          /\ CacheWithin(generatePluralCacheKey(key, count, locale, params))
          /\ TranslatePlural(key, count, locale, params)
  \/ /\ StatsWithin
     /\ \E key \in RuleKeys, count \in Counts, locale \in RuleLocales, params \in RuleParamSets :
          /\ RtlWithin(locale)
          /\ TranslatePluralWithResult(key, count, locale, params)

  \/ /\ StatsWithin
     /\ \E key \in RuleKeys, locale \in RuleLocales : HasPluralRules(key, locale)
  \/ /\ StatsWithin
     /\ \E key \in PlainKeys, locale \in RuleLocales, params \in RuleParamSets :
          /\ CacheWithin(generateCacheKey(key, locale, params))
          /\ Translate(key, locale, params)

SpecRules == InitRules /\ [][NextRules]_vars

\* the call returned the fallback text of an invalid plural rule
Degraded == last.res.ok /\ TextOfLast = FallbackText(last.key, last.count)

\* C24: a category map is rejected as an invalid plural rule exactly when it
\* lacks `other`; an entry with an `other` template is never degraded to
\* "<key> (<count>)", whatever other keys it contains.
C24_RejectedIffNoOther ==
  (last.op \in PluralOps /\ DocumentedEntry(last.key, last.locale).t = "map") =>
    (Degraded <=> "other" \notin DOMAIN DocumentedEntry(last.key, last.locale).m)

\* the same for maps whose keys are all categories, under the
\* configurations that set validatePluralRules to true
C24_RejectedIffNoOtherCategoriesOnly ==
  (/\ last.op \in PluralOps
   /\ Flag(config.pluralization.validatePluralRules)
   /\ DocumentedEntry(last.key, last.locale).t = "map"
   /\ DOMAIN DocumentedEntry(last.key, last.locale).m \subseteq validCategories) =>
    (Degraded <=> "other" \notin DOMAIN DocumentedEntry(last.key, last.locale).m)

\* an entry with `other` is never degraded
C24_OtherNeverDegraded ==
  (/\ last.op \in PluralOps
   /\ DocumentedEntry(last.key, last.locale).t = "map"
   /\ "other" \in DOMAIN DocumentedEntry(last.key, last.locale).m) => ~Degraded


\* the caller's parameters without their `count` entry
WithoutCount(params) == SelectSeq(params, LAMBDA e : e.name # N_count)

\* what the last plural call renders when the caller passes `params`
RenderedWith(params) ==
  IF last.op = "translatePluralWithResult"
  THEN processPluralization(last.key, last.count, last.locale, params, stats, rtlCache).res
  ELSE getPluralTranslation(last.key, last.count, last.locale, params, stats).res

\* C25: the `count` placeholder always renders the count argument: a `count`
\* entry in the caller's params changes nothing, for a plain string entry
\* and for a category map.
C25_CountArgumentWins ==
  last.op \in PluralOps => last.res = RenderedWith(WithoutCount(last.params))

\* the same for entries that are category maps
C25_CountArgumentWinsInMaps ==
  (last.op \in PluralOps /\ DocumentedEntry(last.key, last.locale).t = "map") =>
    last.res = RenderedWith(WithoutCount(last.params))


\* the plural configuration of a locale is right-to-left exactly when
\* isRTL(locale) is true
DirectionAgrees(locale) ==
  (getPluralConfig(locale).direction = "rtl") <=> isRTLCompute(toLowerCase(locale))

\* C28: for every locale the plural configuration's direction is "rtl"
\* exactly when isRTL(locale) is true, so translatePluralWithResult reports
\* the same rtl.isRTL for a plain string entry and for a category map.
C28_SameIsRTL ==
  last.op = "translatePluralWithResult" =>
    /\ DirectionAgrees(last.locale)
    /\ last.res.ok => last.res.v.rtl.isRTL = isRTLCompute(toLowerCase(last.locale))

\* for a plain string entry rtl.isRTL is isRTL(locale)
C28_IsRTLOfStringEntry ==
  (/\ last.op = "translatePluralWithResult" /\ last.res.ok
   /\ DocumentedEntry(last.key, last.locale).t = "str") =>
    last.res.v.rtl.isRTL = isRTLCompute(toLowerCase(last.locale))

\* for a category map that is pluralized rtl.isRTL is the plural
\* configuration's direction
C28_IsRTLOfCategoryMap ==
  (/\ last.op = "translatePluralWithResult" /\ last.res.ok /\ ~Degraded
   /\ DocumentedEntry(last.key, last.locale).t = "map") =>
    last.res.v.rtl.isRTL = (getPluralConfig(last.locale).direction = "rtl")


(***************************************************************************)
(* The numeral lists and the numbering system of a locale.                 *)
(***************************************************************************)
\* C29: for every locale, usesWesternArabicNumerals(l) implies
\* getNumberingSystem(l) = "latn" and usesEasternArabicNumerals(l) implies
\* getNumberingSystem(l) = "arab".
C29_ListsMatchNumberingSystem ==
  last.op = "getNumberingSystem" =>
    /\ last.western => last.res = ARABIC_NUMERAL_CONFIG.western.numberingSystem
    /\ last.eastern => last.res = ARABIC_NUMERAL_CONFIG.eastern.numberingSystem

\* the same for the listed locales that have a plural configuration of
\* their own, and the eastern ones that inherit their language's
C29_ListsMatchWhereConfigured ==
  (/\ last.op = "getNumberingSystem"
   /\ \/ last.locale \in ConfiguredLocales
      \/ last.eastern /\ BaseLocale(last.locale) \in ConfiguredLocales) =>
    /\ last.western => last.res = "latn"
    /\ last.eastern => last.res = "arab"


(***************************************************************************)
(* The statistics counters.                                                *)
(***************************************************************************)
\* C26: with statistics enabled, after any sequence of public calls,
\* totalRequests = cacheHits + successfulTranslations + failedTranslations.
C26_RequestsBalance ==
  config.statisticsEnabled =>
    stats.totalRequests
      = stats.cacheHits + stats.successfulTranslations + stats.failedTranslations

\* the balance after the calls that go through translateWithOptions or
\* translatePluralWithOptions
C26_RequestsBalanceOfCachedCalls ==
  (/\ config.statisticsEnabled
   /\ last.op \in {"translate", "translateWithOptions", "translatePlural",
                   "translatePluralWithOptions", "clearCache", "reloadTranslations"}) =>
    stats.totalRequests
      = stats.cacheHits + stats.successfulTranslations + stats.failedTranslations


(***************************************************************************)
(* The cache keys of the requests.                                         *)
(***************************************************************************)
\* the requests the service is called with
RuleCalls ==
  { [op |-> "translate", key |-> key, locale |-> locale, params |-> params] :
      key \in PlainKeys, locale \in RuleLocales, params \in RuleParamSets }
  \cup
  { [op |-> "translatePlural", key |-> key, locale |-> locale, params |-> params,
     count |-> count] :
      key \in RuleKeys, locale \in RuleLocales, params \in RuleParamSets, count \in Counts }

\* C27: cache keys are injective over requests: a request that differs from
\* the last one in kind (plain or plural), key, locale, count or params has
\* a different cache key.
C27_KeysInjective ==
  IsCall(last) =>
    \A c \in RuleCalls : CacheKeyOf(c) = CacheKeyOf(last) => SameCall(c, last)

\* the same among requests of one kind
C27_KeysInjectivePerKind ==
  IsCall(last) =>
    \A c \in RuleCalls :
      (c.op = last.op /\ CacheKeyOf(c) = CacheKeyOf(last)) => SameCall(c, last)

\* translate answers with the text of the key it was asked for
C27_TranslateAnswersOwnKey ==
  (last.op = "translate" /\ last.params = <<>>) =>
    last.res = getTranslation(last.key, last.locale, TRUE, stats).res


(***************************************************************************)
(* getStats and the object it returns.  `{ ...this.stats }` copies the     *)
(* counters and copies the references to the two usage maps: the returned  *)
(* object's localeUsage and keyUsage are the service's own maps.           *)
(***************************************************************************)
LocaleUsageRef == "this.stats.localeUsage"
KeyUsageRef == "this.stats.keyUsage"

\* getStats: the spread of this.stats
getStats == [stats EXCEPT !.localeUsage = LocaleUsageRef, !.keyUsage = KeyUsageRef]

\* what a caller reads in an object returned by getStats
Read(obj) == [obj EXCEPT !.localeUsage = stats.localeUsage, !.keyUsage = stats.keyUsage]

StatsConfigs ==
  { ServiceConfig("default", FALSE, TRUE, PluralizationDefaults),
    [ServiceConfig("throw", FALSE, TRUE, PluralizationDefaults)
       EXCEPT !.trackKeyUsage = FALSE, !.trackLocaleUsage = FALSE] }
StatsKeys == {K_PLAIN, K_NONE}
StatsLocales == {L_en, L_ar}
\* the values a caller writes into a returned object
WrittenCounter == 50
WrittenUsage == 7

InitStats ==
  /\ config \in StatsConfigs
  /\ translations = loadTranslations
  /\ cache = EmptyCache
  /\ stats = InitialStats
  /\ now = 0
  /\ files = TranslationFiles
  /\ rtlCache = EmptyRtlCache
  /\ rtlInfoCache = EmptyRtlInfoCache
  /\ last = [op |-> "init"]
  /\ held = NotHeld

\* const s = service.getStats(); `at` keeps what s held when it was returned,
\* with the caller's own later writes
GetStats ==
  /\ held' = [taken |-> TRUE, obj |-> getStats, at |-> stats]
  /\ last' = [op |-> "getStats"]
  /\ UNCHANGED <<config, translations, cache, stats, now, files, rtlCache, rtlInfoCache>>

\* s.totalRequests = value
SetReturnedCounter(value) ==
  /\ held.taken
  /\ held.obj.totalRequests # value
  /\ held' = [held EXCEPT !.obj = [held.obj EXCEPT !.totalRequests = value],
                          !.at = [held.at EXCEPT !.totalRequests = value]]
  /\ last' = [op |-> "setReturnedCounter", before |-> stats]
  /\ UNCHANGED <<config, translations, cache, stats, now, files, rtlCache, rtlInfoCache>>

\* s.localeUsage[locale] = value: a write into the map s.localeUsage refers to
SetReturnedUsage(locale, value) ==
  /\ held.taken
  /\ IF locale \in DOMAIN stats.localeUsage THEN stats.localeUsage[locale] # value ELSE TRUE
  /\ \E written \in {[l \in (DOMAIN stats.localeUsage) \cup {locale} |->
                        IF l = locale THEN value ELSE stats.localeUsage[l]]} :
       /\ stats' = [stats EXCEPT !.localeUsage = written]
       /\ held' = [held EXCEPT !.at = [held.at EXCEPT !.localeUsage = written]]
  /\ last' = [op |-> "setReturnedUsage", before |-> stats]
  /\ UNCHANGED <<config, translations, cache, now, files, rtlCache, rtlInfoCache>>

NextStats ==
  \/ GetStats
  \/ /\ CallsWithin
     /\ \E key \in StatsKeys, locale \in StatsLocales : Translate(key, locale, <<>>)
  \/ SetReturnedCounter(WrittenCounter)
  \/ \E locale \in StatsLocales : SetReturnedUsage(locale, WrittenUsage)

SpecStats == InitStats /\ [][NextStats]_vars

\* C30: getStats returns a snapshot: an object obtained earlier is not
\* changed by later calls of the service, its localeUsage and keyUsage maps
\* included, and a write into a returned object does not change the
\* counters of the service.
C30_StatsSnapshot ==
  /\ held.taken => Read(held.obj) = held.at
  /\ last.op \in {"setReturnedCounter", "setReturnedUsage"} => stats = last.before

\* the same for the counters: every field but the two usage maps
C30_CountersSnapshot ==
  /\ held.taken =>
       \A f \in {"totalRequests", "successfulTranslations", "failedTranslations",
                 "cacheHits", "cacheMisses"} : Read(held.obj)[f] = held.at[f]
  /\ last.op = "setReturnedCounter" => stats = last.before

\* a later call of the service leaves a returned object as it was
C30_LaterCallsLeaveReturned ==
  (held.taken /\ last.op = "translate") => Read(held.obj) = held.at

\* a write into a returned object leaves the service's statistics as they were
C30_WritesLeaveService ==
  last.op \in {"setReturnedCounter", "setReturnedUsage"} => stats = last.before

====
